---- MODULE Spec2Model ----
(***************************************************************************)
(* FlightVault: recovery layer over a system-versioned relational store.   *)
(*                                                                         *)
(* Three specifications share this module:                                 *)
(*   Spec       - the store, the dependency validator, the selective       *)
(*                restore executor and the full restore (restore_records)  *)
(*   SpecDiff   - the two diff implementations, applied to record lists    *)
(*   SpecFinder - the restore-point finder's binary search and refinement  *)
(*                                                                         *)
(* Values are integers.  Python's None (SQL NULL) is the integer None;     *)
(* every identifier of the store is a positive integer, so that None is    *)
(* the only falsy value a reference can hold.                              *)
(***************************************************************************)
EXTENDS Integers, Sequences, FiniteSets, TLC

VARIABLES
    \* ---- the store and one recovery operation (Spec) ----
    table,             \* kind the operation restores
    snap,              \* S(table, t*): key -> row, the snapshot at the restore timestamp
    prov,              \* provenance fields carried by the historical rows that were read
    db,                \* committed current state: kind -> (key -> row)
    tx,                \* current state as the operation's connection reads it
    in_tx,             \* an explicit transaction is open on the connection
    mode,              \* "selective" (execute_selective_restore) or "full" (restore_records)
    restore_list,      \* the restore set handed to the validator and the executor
    validation_result, \* result of validate_dependencies
    pc,                \* position of the operation
    batch_num,         \* batch being processed (1-based)
    execution_result,  \* result returned by the executor / by restore_records
    \* ---- observers of the operation (history) ----
    run,               \* how many times the restore set has been applied
    db0,               \* current state before this application began
    after_first,       \* current state after the first committed application
    first_committed,   \* the first application committed
    written_columns,   \* column lists of every record written by this application
    begun,             \* conn.begin() calls of this application
    failed_gate,       \* which store call of this application failed
    \* ---- diff (SpecDiff) ----
    before_data, after_data, diff_pc, diff_ab, diff_ba, diff_stripped,
    an_ab, an_stripped,
    \* ---- finder (SpecFinder) ----
    start_time, end_time, t_disaster, current_start, current_end, iterations,
    best_timestamp, best_health_score, finder_pc, boundary_probes, boundary_current,
    boundary_best_health,
    \* ---- the callers of the engines (API handlers, CLI commands) ----
    preview,           \* changes_preview returned by a dry run / a selective preview
    classification,    \* ids labelled keep / restore / uncertain by the classifier
    created_recently,  \* ids whose creation timestamp lies within the last hour
    outcome,           \* what the command reported when it was interrupted
    \* ---- API handlers and CLI commands (SpecHandlers) ----
    handler,           \* handler or command being served
    handler_pc,        \* its position
    open_engines,      \* engines created and not closed
    requests,          \* requests served so far
    \* ---- core operations under store failures (SpecErrors) ----
    operation,         \* core operation being called
    call_site,         \* index of its next store call
    op_result,         \* how the call ended: a result value or a propagated exception
    calls_made,        \* core operations called so far
    \* ---- classifier inputs (SpecRules) ----
    rules,             \* the ordered rule list of the request (empty: none given)
    change_times,      \* id -> the timestamp the audit lookup found for the change, or None
    \* ---- record-count check (SpecRecordCount) ----
    count_baseline,    \* baseline B
    count_at_time,     \* n, the number of records at the probed timestamp
    count_scores       \* scores given by the two scorers

execVars == <<table, snap, prov, db, tx, in_tx, mode, restore_list, validation_result,
              pc, batch_num, execution_result, run, db0, after_first, first_committed,
              written_columns, begun, failed_gate>>
diffVars == <<before_data, after_data, diff_pc, diff_ab, diff_ba, diff_stripped,
              an_ab, an_stripped>>
finderVars == <<start_time, end_time, t_disaster, current_start, current_end, iterations,
                best_timestamp, best_health_score, finder_pc, boundary_probes,
                boundary_current, boundary_best_health>>
requestVars == <<handler, handler_pc, open_engines, requests>>
coreVars == <<operation, call_site, op_result, calls_made>>
classifierVars == <<rules, change_times>>
scoreVars == <<count_baseline, count_at_time, count_scores>>
inputVars == <<classifierVars, scoreVars>>
handlerVars == <<preview, classification, created_recently, outcome, requestVars, coreVars, inputVars>>
vars == <<execVars, diffVars, finderVars, handlerVars>>

(***************************************************************************)
(* Records and the kind registry                                           *)
(***************************************************************************)
None == 0

TableNames == {"airports", "airlines", "routes"}

\* TemporalEngine.tables: kind -> primary-key field
tables ==
    [t \in TableNames |->
        CASE t = "airports" -> "airport_id"
          [] t = "airlines" -> "airline_id"
          [] OTHER -> "route_id"]

\* The columns of each table that the model keeps.
Columns(t) ==
    CASE t = "airports" -> {"airport_id", "name", "city"}
      [] t = "airlines" -> {"airline_id", "name"}
      [] OTHER -> {"route_id", "airline_id", "source_airport_id",
                   "destination_airport_id", "stops"}

\* The field names the write paths and the engine's comparison exclude.
Provenance == {"ROW_START", "ROW_END", "changed_at", "valid_until", "status"}

\* dict.get(key): None when the key is absent
Get(row, key) == IF key \in DOMAIN row THEN row[key] ELSE None

Min(a, b) == IF a <= b THEN a ELSE b

(***************************************************************************)
(* Bounds of the store model                                               *)
(***************************************************************************)
NVaried == 2       \* keys whose historical and current versions vary freely
BulkRows == 101    \* further keys, present at t* and deleted since (a mass deletion)
MaxRuns == 2       \* applications of the same restore set

VariedKeys == 1..NVaried
BulkKeys == (NVaried + 1)..(NVaried + BulkRows)
AllKeys == 1..(NVaried + BulkRows)

\* Version v of the row with key k (two versions per key).
Version(t, k, v) ==
    CASE t = "airports" ->
            [airport_id |-> k, name |-> v, city |-> 1]
      [] t = "airlines" ->
            [airline_id |-> k, name |-> v]
      [] OTHER ->
            IF v = 1
            THEN [route_id |-> k, airline_id |-> 1, source_airport_id |-> 1,
                  destination_airport_id |-> 2, stops |-> 0]
            ELSE [route_id |-> k, airline_id |-> 2, source_airport_id |-> 2,
                  destination_airport_id |-> None, stops |-> 0]

\* A table from a choice of version per varied key (0: the key is absent).
MkTable(t, choice, bulk) ==
    [k \in {j \in VariedKeys : choice[j] # 0} \cup (IF bulk THEN BulkKeys ELSE {}) |->
        IF k \in BulkKeys THEN Version(t, k, 1) ELSE Version(t, k, choice[k])]

\* A table holding version 1 of the given keys.
RefTable(t, keys) == [k \in keys |-> Version(t, k, 1)]

(***************************************************************************)
(* Temporal store adapter                                                  *)
(***************************************************************************)
\* cursor.fetchall() of SELECT * : the rows in primary-key order
KeySeq(keys) == SelectSeq([i \in 1..(NVaried + BulkRows) |-> i], LAMBDA k : k \in keys)

\* A historical row as read: the stored row plus the provenance fields the read carries.
AttachProv(row, p) ==
    [f \in DOMAIN row \cup p |-> IF f \in DOMAIN row THEN row[f] ELSE 1]

\* query_as_of(table, t*): key -> row as read
query_as_of(sn, p) == [k \in DOMAIN sn |-> AttachProv(sn[k], p)]

\* query_current(table) on the operation's connection
query_current(store, t) == store[t]

\* Mutant of written_key: the primary key is left out of the column list, so the
\* table's AUTO_INCREMENT assigns the next key.
written_key_auto_increment(tbl, t, rec) ==
    IF DOMAIN tbl = {} THEN 1
    ELSE 1 + CHOOSE m \in DOMAIN tbl : \A k \in DOMAIN tbl : k <= m

\* The key a write of the record addresses: the column list of both write statements
\* is every key of the cleaned record, the primary key included.
written_key(tbl, t, rec) == rec[tables[t]]

\* REPLACE INTO t (columns) VALUES (...): the row with the record's key is replaced,
\* columns not listed take their default (NULL); every other row is untouched.
replace_into(tbl, t, rec) ==
    LET key == written_key(tbl, t, rec)
    IN  [k \in DOMAIN tbl \cup {key} |->
            IF k = key THEN [c \in Columns(t) |-> Get(rec, c)] ELSE tbl[k]]

\* Mutant of insert_on_duplicate_key_update: INSERT IGNORE leaves an existing row as
\* it is and only inserts missing ones.
insert_ignore(tbl, t, rec) ==
    LET key == rec[tables[t]]
    IN  [k \in DOMAIN tbl \cup {key} |->
            IF k \in DOMAIN tbl THEN tbl[k] ELSE [c \in Columns(t) |-> Get(rec, c)]]

\* INSERT ... ON DUPLICATE KEY UPDATE col = VALUES(col): an existing row keeps the
\* columns the record does not list; a new row takes NULL for them.
insert_on_duplicate_key_update(tbl, t, rec) ==
    LET key == written_key(tbl, t, rec)
    IN  [k \in DOMAIN tbl \cup {key} |->
            IF k = key
            THEN [c \in Columns(t) |->
                    IF c \in DOMAIN rec THEN rec[c]
                    ELSE IF key \in DOMAIN tbl THEN tbl[key][c] ELSE None]
            ELSE tbl[k]]

\* conn.rollback(): the connection's view returns to the committed state
conn_rollback(committed, working) == committed

\* conn.commit(): the connection's view becomes the committed state
conn_commit(committed, working) == working

(***************************************************************************)
(* Diff of the engine (TemporalEngine)                                     *)
(***************************************************************************)
\* _rows_different(row1, row2): iterates the keys of row1 only
rows_different(row1, row2) ==
    \E key \in DOMAIN row1 \ Provenance : row1[key] # Get(row2, key)

\* _get_field_changes(before_row, after_row): one entry per differing key of before_row
get_field_changes(before_row, after_row) ==
    {[field |-> key, before |-> before_row[key], after |-> Get(after_row, key)] :
        key \in {k \in DOMAIN before_row \ Provenance : before_row[k] # Get(after_row, k)}}

(***************************************************************************)
(* Selective restore engine: analysis and validation                       *)
(***************************************************************************)
NoRow == [f \in {} |-> None]

\* analyze_changes: the changes between S(table, t*) and current, in the order
\* deleted, added, modified (the order _apply_rules concatenates them in)
analyze_changes(t, sn, p, store) ==
    LET historical_dict == query_as_of(sn, p)
        current_dict == query_current(store, t)
        deleted_ids == KeySeq(DOMAIN historical_dict \ DOMAIN current_dict)
        added_ids == KeySeq(DOMAIN current_dict \ DOMAIN historical_dict)
        modified_ids ==
            KeySeq({id \in DOMAIN historical_dict \cap DOMAIN current_dict :
                       rows_different(historical_dict[id], current_dict[id])})
        deleted_records ==
            [i \in 1..Len(deleted_ids) |->
                [type |-> "deleted", id |-> deleted_ids[i],
                 historical_data |-> historical_dict[deleted_ids[i]],
                 current_data |-> NoRow, changed_fields |-> {}]]
        added_records ==
            [i \in 1..Len(added_ids) |->
                [type |-> "added", id |-> added_ids[i],
                 historical_data |-> NoRow,
                 current_data |-> current_dict[added_ids[i]], changed_fields |-> {}]]
        modified_records ==
            [i \in 1..Len(modified_ids) |->
                [type |-> "modified", id |-> modified_ids[i],
                 historical_data |-> historical_dict[modified_ids[i]],
                 current_data |-> current_dict[modified_ids[i]],
                 changed_fields |->
                    get_field_changes(historical_dict[modified_ids[i]],
                                      current_dict[modified_ids[i]])]]
    IN  deleted_records \o added_records \o modified_records

\* The changes a classification labelled restore: those with the given keys.
RestoreSet(changes, keys) == SelectSeq(changes, LAMBDA c : c.id \in keys)

\* _validate_route_dependencies: the entries appended to foreign_key_issues, each with
\* the position of the item that produced it (the list holds them in that order).
route_issues(list, airport_ids) ==
    LET checked == {i \in 1..Len(list) : list[i].type \in {"deleted", "modified"}}
        source_id(i) == Get(list[i].historical_data, "source_airport_id")
        dest_id(i) == Get(list[i].historical_data, "destination_airport_id")
    IN  {[item |-> i, kind |-> "source", id |-> source_id(i)] :
            i \in {j \in checked : source_id(j) # None /\ source_id(j) \notin airport_ids}}
        \cup
        {[item |-> i, kind |-> "destination", id |-> dest_id(i)] :
            i \in {j \in checked : dest_id(j) # None /\ dest_id(j) \notin airport_ids}}

validate_route_dependencies(list, store) ==
    LET issues == route_issues(list, DOMAIN query_current(store, "airports"))
    IN  [safe_to_restore |-> issues = {},
         foreign_key_issues |-> issues,
         cascade_impact |-> 0,
         warnings |-> 0,
         affected_tables |-> {"airports", "airlines"}]

validate_airport_dependencies(list, store) ==
    LET airport_ids == {list[i].id : i \in {j \in 1..Len(list) : list[j].type = "deleted"}}
        current_routes == query_current(store, "routes")
        affected_routes ==
            {r \in DOMAIN current_routes :
                \/ Get(current_routes[r], "source_airport_id") \in airport_ids
                \/ Get(current_routes[r], "destination_airport_id") \in airport_ids}
    IN  [safe_to_restore |-> TRUE,
         foreign_key_issues |-> {},
         cascade_impact |-> Cardinality(affected_routes),
         warnings |-> IF affected_routes # {} THEN 1 ELSE 0,
         affected_tables |-> {"routes"}]

validate_dependencies(t, list, store) ==
    CASE t = "airports" -> validate_airport_dependencies(list, store)
      [] t = "routes" -> validate_route_dependencies(list, store)
      [] OTHER -> [safe_to_restore |-> TRUE, foreign_key_issues |-> {},
                   cascade_impact |-> 0, warnings |-> 0, affected_tables |-> {}]

(***************************************************************************)
(* Selective restore engine: the executor                                  *)
(***************************************************************************)
batch_size == 100

\* batches = [restore_list[i:i + batch_size] for i in range(0, total_records, batch_size)]
NumBatches(list) == (Len(list) + batch_size - 1) \div batch_size

Batch(list, n) == SubSeq(list, (n - 1) * batch_size + 1, Min(n * batch_size, Len(list)))

\* Mutant of refuses: the executor does not look at the validation.
refuses_never(validation) == FALSE

\* if not validation_result['safe_to_restore']: return {'success': False, ...}
refuses(validation) == ~validation.safe_to_restore

\* Mutant of clean_record: the exclusion list lacks 'status'.
clean_record_keeps_status(historical_data) ==
    [k \in DOMAIN historical_data \ {"ROW_START", "ROW_END", "changed_at",
                                     "valid_until"} |-> historical_data[k]]

\* clean_record of _execute_batch_restore: the historical payload without provenance
clean_record(historical_data) ==
    [k \in DOMAIN historical_data \ {"ROW_START", "ROW_END", "changed_at",
                                     "valid_until", "status"} |-> historical_data[k]]

\* Mutant of restore_payload: a modified item is written from its current version.
restore_payload_current(item) ==
    clean_record(IF item.type = "modified" THEN item.current_data
                 ELSE item.historical_data)

\* The record _execute_batch_restore writes for a deleted or modified item.
restore_payload(item) == clean_record(item.historical_data)

\* Items of type added execute no statement.
Writes(item) == item.type \in {"deleted", "modified"}

\* Mutant of execute_items: the table is rebuilt from the batch, rows the batch does
\* not write are dropped.
execute_items_rebuild(tbl, t, batch, n) ==
    LET w == {i \in 1..n : Writes(batch[i])}
        key(i) == written_key(tbl, t, restore_payload(batch[i]))
        last(k) == CHOOSE i \in w : key(i) = k /\ \A j \in w : key(j) = k => j <= i
    IN  [k \in {key(i) : i \in w} |->
            replace_into(tbl, t, restore_payload(batch[last(k)]))[k]]

\* _execute_batch_restore, the loop over the first n items of the batch: one REPLACE
\* per deleted or modified item.  Each statement touches the row of its own key only,
\* so the loop leaves, for every key written, the row of the last item that wrote it.
execute_items(tbl, t, batch, n) ==
    LET w == {i \in 1..n : Writes(batch[i])}
        key(i) == written_key(tbl, t, restore_payload(batch[i]))
        last(k) == CHOOSE i \in w : key(i) = k /\ \A j \in w : key(j) = k => j <= i
    IN  [k \in DOMAIN tbl \cup {key(i) : i \in w} |->
            IF \E i \in w : key(i) = k
            THEN replace_into(tbl, t, restore_payload(batch[last(k)]))[k]
            ELSE tbl[k]]

\* records_processed after the first n items
Processed(batch, n) == Cardinality({i \in 1..n : Writes(batch[i])})

\* Column lists of the records the first n items write.
PayloadColumns(batch, n) ==
    {DOMAIN restore_payload(batch[i]) : i \in {j \in 1..n : Writes(batch[j])}}

\* The items at which cursor.execute may raise: the first and the last writing item.
FailPoints(batch) ==
    LET w == {i \in 1..Len(batch) : Writes(batch[i])}
    IN  {i \in w : \A j \in w : i <= j} \cup {i \in w : \A j \in w : j <= i}

\* _validate_batch_integrity: the primary keys that occur more than once
duplicates(tbl, t) ==
    {k \in DOMAIN tbl : Cardinality({j \in DOMAIN tbl : tbl[j][tables[t]] = k}) > 1}

\* _final_validation_check: every expected id is present
final_validation_check(tbl, list) ==
    LET expected_ids == {list[i].id : i \in {j \in 1..Len(list) : Writes(list[j])}}
    IN  expected_ids = {}
        \/ Cardinality({k \in DOMAIN tbl : k \in expected_ids}) = Cardinality(expected_ids)

\* Mutant of on_failure: the failure path returns without rolling back.
on_failure_no_rollback(committed, working) == working

\* What every failure path of the executor does to the connection's view
\* (self.engine.conn.rollback() before the return).
on_failure(committed, working) == conn_rollback(committed, working)

\* Mutant of on_success: the success path reports success without committing.
on_success_no_commit(committed, working) == committed

\* What the success path does (self.engine.conn.commit()).
on_success(committed, working) == conn_commit(committed, working)

\* Mutant of visible_to_readers: every statement is committed as it executes.
visible_to_readers_autocommit(in_transaction, committed, working) == working

\* What other connections read after a statement of this connection: inside the
\* transaction opened by conn.begin() the committed state is unchanged; outside one
\* the statement is committed at once.
visible_to_readers(in_transaction, committed, working) ==
    IF in_transaction THEN committed ELSE working

EmptyResult ==
    [success |-> FALSE, records_processed |-> 0, batches_completed |-> 0, errors |-> <<>>]

ExecUnchanged == UNCHANGED <<table, snap, prov, mode, restore_list, run, db0,
                             after_first, first_committed>>
OthersUnchanged == UNCHANGED <<diffVars, finderVars, handlerVars>>

\* The caller computes the validation of the restore set.
ValidateDependencies ==
    /\ pc = "start" /\ mode = "selective"
    /\ validation_result' = validate_dependencies(table, restore_list, tx)
    /\ pc' = "validated"
    /\ UNCHANGED <<db, tx, in_tx, batch_num, execution_result, written_columns, begun,
                   failed_gate>>
    /\ ExecUnchanged /\ OthersUnchanged

\* execute_selective_restore, lines 157-162: the validation failed, nothing runs.
ExecuteRefused ==
    /\ pc = "validated" /\ refuses(validation_result)
    /\ execution_result' =
          [EmptyResult EXCEPT !.errors = <<"Validation failed - restore aborted">>]
    /\ pc' = "done"
    /\ UNCHANGED <<db, tx, in_tx, batch_num, validation_result, written_columns, begun,
                   failed_gate>>
    /\ ExecUnchanged /\ OthersUnchanged

\* execute_selective_restore, lines 164-181: conn.begin() and the split into batches;
\* a begin that raises lands in the except clause.
BeginTransaction ==
    /\ pc = "validated" /\ ~refuses(validation_result)
    /\ execution_result' = EmptyResult
    /\ \/ /\ in_tx' = TRUE /\ begun' = begun + 1
          /\ batch_num' = 1
          /\ pc' = IF NumBatches(restore_list) = 0 THEN "final" ELSE "batch"
          /\ UNCHANGED <<tx, db, failed_gate>>
       \/ /\ tx' = on_failure(db, tx) /\ in_tx' = FALSE
          /\ execution_result' = [EmptyResult EXCEPT !.errors = <<"begin failed">>]
          /\ failed_gate' = "begin" /\ pc' = "done"
          /\ UNCHANGED <<db, begun, batch_num>>
    /\ UNCHANGED <<validation_result, written_columns>>
    /\ ExecUnchanged /\ OthersUnchanged

\* Lines 183-196: _execute_batch_restore on the current batch; when a statement raises
\* the batch reports failure and the executor rolls back and returns.
ExecuteBatch ==
    /\ pc = "batch"
    /\ LET batch == Batch(restore_list, batch_num)
       IN  \/ /\ tx' = [tx EXCEPT ![table] = execute_items(@, table, batch, Len(batch))]
              /\ db' = visible_to_readers(in_tx, db, tx')
              /\ written_columns' = written_columns \cup PayloadColumns(batch, Len(batch))
              /\ execution_result' =
                    [execution_result EXCEPT
                        !.records_processed = @ + Processed(batch, Len(batch)),
                        !.batches_completed = @ + 1]
              /\ pc' = "probe"
              /\ UNCHANGED <<in_tx, failed_gate>>
           \/ \E f \in FailPoints(batch) :
              LET written == [tx EXCEPT ![table] = execute_items(@, table, batch, f - 1)]
              IN  /\ db' = visible_to_readers(in_tx, db, written)
                  /\ tx' = on_failure(db', written)
                  /\ written_columns' = written_columns \cup PayloadColumns(batch, f)
                  /\ execution_result' =
                        [execution_result EXCEPT !.errors = Append(@, "batch failed")]
                  /\ in_tx' = FALSE /\ failed_gate' = "batch" /\ pc' = "done"
    /\ UNCHANGED <<batch_num, validation_result, begun>>
    /\ ExecUnchanged /\ OthersUnchanged

\* Lines 198-202: the integrity probe after the batch (a probe that raises counts as
\* failed).
ValidateBatchIntegrity ==
    /\ pc = "probe"
    /\ \/ /\ duplicates(tx[table], table) = {}
          /\ IF batch_num < NumBatches(restore_list)
             THEN batch_num' = batch_num + 1 /\ pc' = "batch"
             ELSE batch_num' = batch_num /\ pc' = "final"
          /\ UNCHANGED <<tx, in_tx, execution_result, failed_gate>>
       \/ /\ tx' = on_failure(db, tx) /\ in_tx' = FALSE
          /\ execution_result' =
                [execution_result EXCEPT !.errors = Append(@, "Integrity check failed")]
          /\ failed_gate' = "probe" /\ pc' = "done"
          /\ UNCHANGED batch_num
    /\ UNCHANGED <<db, validation_result, written_columns, begun>>
    /\ ExecUnchanged /\ OthersUnchanged

\* Lines 204-217: the final check, then commit.  The check returns False when an
\* expected id is missing or when its query raises (second disjunct); a commit that
\* raises lands in the except clause (third disjunct).  Both roll back.
FinalValidation ==
    /\ pc = "final"
    /\ \/ /\ final_validation_check(tx[table], restore_list)
          /\ db' = on_success(db, tx)
          /\ execution_result' = [execution_result EXCEPT !.success = TRUE]
          /\ UNCHANGED <<tx, failed_gate>>
       \/ /\ tx' = on_failure(db, tx)
          /\ execution_result' =
                [execution_result EXCEPT !.errors = Append(@, "Final validation failed")]
          /\ failed_gate' = "final"
          /\ UNCHANGED db
       \/ /\ final_validation_check(tx[table], restore_list)
          /\ tx' = on_failure(db, tx)
          /\ execution_result' =
                [execution_result EXCEPT !.errors = Append(@, "commit failed")]
          /\ failed_gate' = "commit"
          /\ UNCHANGED db
    /\ in_tx' = FALSE /\ pc' = "done"
    /\ UNCHANGED <<batch_num, validation_result, written_columns, begun>>
    /\ ExecUnchanged /\ OthersUnchanged

(***************************************************************************)
(* Full restore (TemporalEngine.restore_records)                           *)
(***************************************************************************)
\* clean_record of restore_records
clean_record_full(record) ==
    [k \in DOMAIN record \ {"ROW_START", "ROW_END", "changed_at",
                            "valid_until", "status"} |-> record[k]]

\* restore_records, the loop over the first n records: one upsert per record, each
\* touching the row of its own key only.
restore_items(tbl, t, records, n) ==
    LET key(i) == written_key(tbl, t, clean_record_full(records[i]))
        last(k) == CHOOSE i \in 1..n : key(i) = k /\ \A j \in 1..n : key(j) = k => j <= i
    IN  [k \in DOMAIN tbl \cup {key(i) : i \in 1..n} |->
            IF \E i \in 1..n : key(i) = k
            THEN insert_on_duplicate_key_update(tbl, t, clean_record_full(records[last(k)]))[k]
            ELSE tbl[k]]

\* historical_data = engine.query_as_of(table, restore_ts), as a list
HistoricalData ==
    LET ids == KeySeq(DOMAIN snap)
        rows == query_as_of(snap, prov)
    IN  [i \in 1..Len(ids) |-> rows[ids[i]]]

\* restore_records(table, historical_data): begin, one upsert per record, commit; any
\* exception rolls back.  The statement that raises is the first or the last one.
RestoreRecords ==
    /\ pc = "start" /\ mode = "full"
    /\ LET records == HistoricalData
           n == Len(records)
       IN  \/ /\ tx' = [tx EXCEPT ![table] = restore_items(@, table, records, n)]
              /\ db' = on_success(db, tx')
              /\ written_columns' = written_columns \cup
                    {DOMAIN clean_record_full(records[i]) : i \in 1..n}
              /\ execution_result' =
                    [EmptyResult EXCEPT !.success = TRUE, !.records_processed = n]
              /\ begun' = begun + 1
              /\ UNCHANGED failed_gate
           \/ \E f \in {1, n} \cap 1..n :
              /\ tx' = on_failure(db, [tx EXCEPT ![table] =
                                          restore_items(@, table, records, f - 1)])
              /\ written_columns' = written_columns \cup
                    {DOMAIN clean_record_full(records[i]) : i \in 1..f}
              /\ execution_result' = [EmptyResult EXCEPT !.errors = <<"statement failed">>]
              /\ begun' = begun + 1 /\ failed_gate' = "batch"
              /\ UNCHANGED db
           \/ /\ tx' = on_failure(db, tx)
              /\ execution_result' = [EmptyResult EXCEPT !.errors = <<"begin failed">>]
              /\ failed_gate' = "begin"
              /\ UNCHANGED <<db, written_columns, begun>>
    /\ in_tx' = FALSE /\ pc' = "done"
    /\ UNCHANGED <<batch_num, validation_result>>
    /\ ExecUnchanged /\ OthersUnchanged

\* The same restore set is applied again to the state the previous application left.
Rerun ==
    /\ pc = "done" /\ run < MaxRuns
    /\ run' = run + 1
    /\ db0' = tx
    /\ after_first' = IF run = 1 THEN tx ELSE after_first
    /\ first_committed' = IF run = 1 THEN execution_result.success ELSE first_committed
    /\ pc' = "start"
    /\ written_columns' = {} /\ begun' = 0 /\ failed_gate' = "none"
    /\ execution_result' = EmptyResult
    /\ UNCHANGED <<table, snap, prov, db, tx, in_tx, mode, restore_list,
                   validation_result, batch_num>>
    /\ OthersUnchanged

(***************************************************************************)
(* Initial states of Spec: a snapshot at t*, a current state, a restore set *)
(***************************************************************************)
NoValidation ==
    [safe_to_restore |-> TRUE, foreign_key_issues |-> {}, cascade_impact |-> 0,
     warnings |-> 0, affected_tables |-> {}]

DiffIdle ==
    /\ before_data = <<>> /\ after_data = <<>> /\ diff_pc = "off"
    /\ diff_ab = {} /\ diff_ba = {} /\ diff_stripped = {}
    /\ an_ab = {} /\ an_stripped = {}

FinderIdle ==
    /\ start_time = 0 /\ end_time = 0 /\ t_disaster = 0
    /\ current_start = 0 /\ current_end = 0 /\ iterations = 0
    /\ best_timestamp = 0 /\ best_health_score = 0 /\ finder_pc = "off"
    /\ boundary_probes = 0 /\ boundary_current = 0 /\ boundary_best_health = 0

NoPreview ==
    [made |-> FALSE, records_to_restore |-> 0, will_add |-> 0, will_update |-> 0,
     will_remove |-> 0, restore_count |-> 0]

NoClassification == [keep_records |-> {}, restore_records |-> {}, uncertain_records |-> {}]

NoOpResult == [status |-> "none", failed_site |-> 0, success |-> FALSE, error |-> ""]

RequestIdle ==
    /\ handler = "none" /\ handler_pc = "idle" /\ open_engines = 0 /\ requests = 0

CoreIdle ==
    /\ operation = "none" /\ call_site = 0 /\ op_result = NoOpResult /\ calls_made = 0

NoTimes == [id \in {} |-> None]

NoScores == [scorer |-> None - 1, finder |-> None - 1]

InputIdle ==
    /\ rules = <<>> /\ change_times = NoTimes
    /\ count_baseline = 0 /\ count_at_time = 0 /\ count_scores = NoScores

HandlerIdle ==
    /\ preview = NoPreview
    /\ classification = NoClassification
    /\ created_recently = {}
    /\ outcome = "none"
    /\ RequestIdle
    /\ CoreIdle
    /\ InputIdle

VersionChoices == [VariedKeys -> 0..2]

\* The current state of the kinds the restored kind is related to.
FullRelated(t) ==
    [k \in TableNames \ {t} |-> RefTable(k, {1, 2})]

RelatedStores(t) ==
    IF t = "routes"
    THEN {[k \in {"airports", "airlines"} |->
              IF k = "airports" THEN RefTable(k, a) ELSE RefTable(k, l)] :
            a \in SUBSET {1, 2}, l \in {{1, 2}, {1}}}
    ELSE {[k \in TableNames \ {t} |->
              IF k = "routes" THEN RefTable(k, r) ELSE RefTable(k, {1, 2})] :
            r \in {{}, {1}}}

\* The restore set a classification of the changes produced: the changes of the chosen
\* varied keys and, after a mass deletion, every deleted bulk row.
InitRestoreList(keys, bulk) ==
    /\ restore_list = RestoreSet(analyze_changes(table, snap, prov, db),
                                 keys \cup (IF bulk THEN BulkKeys ELSE {}))
    /\ keys \subseteq {restore_list[i].id : i \in 1..Len(restore_list)}

\* Varied family: every varied key has any version (or none) at t* and now.
InitVaried ==
    /\ table \in {"airports", "routes"}
    /\ mode \in {"selective", "full"}
    /\ prov \in {{}, Provenance}
    /\ \E hs \in VersionChoices, cs \in VersionChoices,
          rel \in (IF mode = "full" THEN {FullRelated(table)} ELSE RelatedStores(table)) :
          /\ \A k \in VariedKeys : <<hs[k], cs[k]>> \notin {<<0, 0>>, <<2, 2>>}
          /\ snap = MkTable(table, hs, FALSE)
          /\ db = [t \in TableNames |->
                      IF t = table THEN MkTable(table, cs, FALSE) ELSE rel[t]]
          /\ IF mode = "full" THEN restore_list = <<>>
             ELSE \E keys \in SUBSET VariedKeys : InitRestoreList(keys, FALSE)

\* Mass-deletion family: BulkRows rows present at t* were deleted since and are all in
\* the restore set, so that the restore set spans more than one batch; key 1 varies.
InitMassDeletion ==
    /\ table \in {"airports", "routes"}
    /\ mode = "selective"
    /\ prov = {}
    /\ \E hs \in VersionChoices, cs \in VersionChoices :
          /\ <<hs[1], cs[1]>> \notin {<<0, 0>>, <<2, 2>>}
          /\ \A k \in VariedKeys \ {1} : hs[k] = 1 /\ cs[k] = 1
          /\ snap = MkTable(table, hs, TRUE)
          /\ db = [t \in TableNames |->
                      IF t = table THEN MkTable(table, cs, FALSE)
                      ELSE FullRelated(table)[t]]
          /\ \E keys \in SUBSET {1} : InitRestoreList(keys, TRUE)

InitExec ==
    /\ InitVaried \/ InitMassDeletion
    /\ tx = db /\ db0 = db /\ after_first = db
    /\ in_tx = FALSE /\ first_committed = FALSE
    /\ validation_result = NoValidation
    /\ pc = "start" /\ batch_num = 0
    /\ execution_result = EmptyResult
    /\ run = 1 /\ written_columns = {} /\ begun = 0 /\ failed_gate = "none"

Init == InitExec /\ DiffIdle /\ FinderIdle /\ HandlerIdle

Next ==
    \/ ValidateDependencies
    \/ ExecuteRefused
    \/ BeginTransaction
    \/ ExecuteBatch
    \/ ValidateBatchIntegrity
    \/ FinalValidation
    \/ RestoreRecords
    \/ Rerun

Spec == Init /\ [][Next]_vars

(***************************************************************************)
(* Properties of Spec                                                      *)
(***************************************************************************)
Done == pc = "done"

RestoreIds == {restore_list[i].id : i \in 1..Len(restore_list)}

WrittenItems == {i \in 1..Len(restore_list) : Writes(restore_list[i])}

\* Table u holds the same row, or the same absence of a row, for key k as table v.
SameAt(u, v, k) ==
    /\ (k \in DOMAIN u) = (k \in DOMAIN v)
    /\ k \in DOMAIN u /\ k \in DOMAIN v => u[k] = v[k]

\* C1 - Executor atomicity: when a batch write, a batch probe, the final check or the
\* commit of a restore set of two or more batches fails after at least one batch was
\* written, the executor has rolled back and reports success = false, and the current
\* state (as committed and as the connection reads it) is the state before the
\* operation.
ExecutorAtomicity ==
    (/\ Done /\ mode = "selective"
     /\ NumBatches(restore_list) >= 2
     /\ failed_gate \in {"batch", "probe", "final", "commit"}
     /\ execution_result.batches_completed >= 1)
    => /\ ~execution_result.success
       /\ ~in_tx
       /\ tx = db0
       /\ db = db0

\* C1 witness: the write of the second batch failed after the first batch had
\* restored its rows.
ExecutorAtomicityWitness ==
    /\ Done /\ mode = "selective"
    /\ NumBatches(restore_list) >= 2
    /\ failed_gate = "batch"
    /\ execution_result.batches_completed = 1
    /\ execution_result.records_processed = batch_size
    /\ tx = db0

\* C2 - When the validator returned safe_to_restore = false the executor does not run:
\* no transaction was begun, no record was written, success = false and the store is
\* unchanged.
ValidatorBlocksExecutor ==
    (Done /\ mode = "selective" /\ ~validation_result.safe_to_restore)
    => /\ ~execution_result.success
       /\ begun = 0 /\ ~in_tx
       /\ written_columns = {}
       /\ execution_result.records_processed = 0
       /\ tx = db0 /\ db = db0

\* C2 witness: a route of the restore set refers to an airport that is absent from the
\* current airports, and the executor has returned.
ValidatorBlocksExecutorWitness ==
    /\ Done /\ mode = "selective" /\ table = "routes"
    /\ ~validation_result.safe_to_restore
    /\ \E i \in WrittenItems :
          /\ restore_list[i].historical_data["source_airport_id"] # None
          /\ restore_list[i].historical_data["source_airport_id"]
                \notin DOMAIN tx["airports"]

\* The outgoing references of route row r resolve in store st.
AirportRefsResolve(r, st) ==
    /\ r["source_airport_id"] # None => r["source_airport_id"] \in DOMAIN st["airports"]
    /\ r["destination_airport_id"] # None =>
          r["destination_airport_id"] \in DOMAIN st["airports"]

AirlineRefResolves(r, st) ==
    r["airline_id"] # None => r["airline_id"] \in DOMAIN st["airlines"]

\* C3 - Referential safety: after a validated restore of routes committed, the source
\* airport, the destination airport and the airline of every restored route exist in
\* the current state.
ReferentialSafety ==
    (Done /\ mode = "selective" /\ table = "routes" /\ execution_result.success)
    => \A i \in WrittenItems :
          /\ restore_list[i].id \in DOMAIN db["routes"]
          /\ AirportRefsResolve(db["routes"][restore_list[i].id], db)
          /\ AirlineRefResolves(db["routes"][restore_list[i].id], db)

\* The part of C3 the validator does establish: the airport references resolve.
ReferentialSafetyAirports ==
    (Done /\ mode = "selective" /\ table = "routes" /\ execution_result.success)
    => \A i \in WrittenItems :
          /\ restore_list[i].id \in DOMAIN db["routes"]
          /\ AirportRefsResolve(db["routes"][restore_list[i].id], db)

\* C4 - Restore idempotence: once an application of the restore set (selective or
\* full) committed, every further application of the same set ends in the state the
\* first one left.
RestoreIdempotent ==
    (Done /\ run >= 2 /\ first_committed)
    => /\ tx = after_first
       /\ db = after_first

\* C4 witness: the second application committed as well, and it wrote records.
RestoreIdempotentWitness ==
    /\ Done /\ run = 2 /\ first_committed
    /\ execution_result.success
    /\ execution_result.records_processed > 0
    /\ written_columns # {}

\* C5 - No synthesis: after a committed selective restore, the current row of every
\* deleted or modified key of the restore set is exactly the row of S(table, t*).
NoSynthesis ==
    (Done /\ mode = "selective" /\ execution_result.success)
    => \A i \in WrittenItems :
          LET k == restore_list[i].id
          IN  /\ k \in DOMAIN snap /\ k \in DOMAIN db[table] /\ k \in DOMAIN tx[table]
              /\ db[table][k] = snap[k]
              /\ tx[table][k] = snap[k]

\* C5 witness: a committed restore of a modified row whose historical version was read
\* with provenance fields, and which differed from the current version.
NoSynthesisWitness ==
    /\ Done /\ mode = "selective" /\ execution_result.success /\ run = 1
    /\ prov # {}
    /\ \E i \in WrittenItems :
          /\ restore_list[i].type = "modified"
          /\ db0[table][restore_list[i].id] # snap[restore_list[i].id]

\* C6 - Frame: after execute_selective_restore returned (committed or rolled back),
\* every record of another kind and every record of the kind whose key is not in the
\* restore set is as it was before the operation.
FramePreserved ==
    (Done /\ mode = "selective")
    => \A t \in TableNames :
          \A k \in DOMAIN db0[t] \cup DOMAIN db[t] \cup DOMAIN tx[t] :
             (t # table \/ k \notin RestoreIds)
             => SameAt(db[t], db0[t], k) /\ SameAt(tx[t], db0[t], k)

\* C6 witness: the restore committed and wrote rows while a key that changed since t*
\* was left out of the restore set.
FramePreservedWitness ==
    /\ Done /\ mode = "selective" /\ execution_result.success /\ run = 1
    /\ execution_result.records_processed > 0
    /\ \E k \in VariedKeys \ RestoreIds : ~SameAt(db0[table], snap, k)

\* C7 - Provenance fields are write-excluded: no record written by restore_records or
\* by the selective executor has a provenance field among its columns.
ProvenanceNeverWritten ==
    \A columns \in written_columns : columns \cap Provenance = {}

\* C7 witness: records were written from historical rows that carried every
\* provenance field.
ProvenanceNeverWrittenWitness ==
    /\ Done /\ prov = Provenance /\ mode = "selective"
    /\ written_columns # {}
    /\ execution_result.success

(***************************************************************************)
(* SpecDiff: the two diff implementations on pairs of record lists         *)
(***************************************************************************)
NDiffKeys == 2     \* primary keys that occur in the record lists
MaxValue == 2      \* field values are None or 1..MaxValue

\* The records of key k: the primary key, optionally a name (None or a value) and
\* optionally the provenance field ROW_START.
DiffRows(k) ==
    {[airport_id |-> k]}
    \cup {[airport_id |-> k, name |-> v] : v \in {None} \cup 1..MaxValue}
    \cup {[airport_id |-> k, ROW_START |-> r] : r \in 1..MaxValue}
    \cup {[airport_id |-> k, name |-> v, ROW_START |-> r] :
            v \in {None} \cup 1..MaxValue, r \in 1..MaxValue}

\* The snapshots over the keys: at most one record per key, in key order.
RECURSIVE RecordLists(_)
RecordLists(n) ==
    IF n = 0 THEN {<<>>}
    ELSE LET shorter == RecordLists(n - 1)
         IN  shorter \cup {Append(l, r) : l \in shorter, r \in DiffRows(n)}

\* {row[pk]: row for row in data}: the last record of a key wins
ToDict(data, pk) ==
    [k \in {data[i][pk] : i \in 1..Len(data)} |->
        data[CHOOSE i \in 1..Len(data) :
                /\ data[i][pk] = k
                /\ \A j \in 1..Len(data) : data[j][pk] = k => j <= i]]

\* TemporalEngine.calculate_diff (added, deleted and modified as sets)
calculate_diff(before, after, t) ==
    LET pk == tables[t]
        before_dict == ToDict(before, pk)
        after_dict == ToDict(after, pk)
    IN  [added |-> {after_dict[k] : k \in DOMAIN after_dict \ DOMAIN before_dict},
         deleted |-> {before_dict[k] : k \in DOMAIN before_dict \ DOMAIN after_dict},
         modified |->
            {[before |-> before_dict[k], after |-> after_dict[k],
              changes |-> get_field_changes(before_dict[k], after_dict[k])] :
                k \in {j \in DOMAIN before_dict \cap DOMAIN after_dict :
                          rows_different(before_dict[j], after_dict[j])}}]

\* DiffAnalyzer._field_changes: the fields of both records whose values differ
field_changes(before, after) ==
    {[field |-> f, before |-> before[f], after |-> after[f]] :
        f \in {g \in DOMAIN before \cap DOMAIN after : before[g] # after[g]}}

\* DiffAnalyzer._calculate_diff: a key is modified when the two dicts are unequal
analyzer_calculate_diff(data1, data2, t) ==
    LET pk_field == tables[t]
        dict1 == ToDict(data1, pk_field)
        dict2 == ToDict(data2, pk_field)
    IN  [added |-> {dict2[k] : k \in DOMAIN dict2 \ DOMAIN dict1},
         deleted |-> {dict1[k] : k \in DOMAIN dict1 \ DOMAIN dict2},
         modified |->
            {[before |-> dict1[k], after |-> dict2[k],
              changes |-> field_changes(dict1[k], dict2[k])] :
                k \in {j \in DOMAIN dict1 \cap DOMAIN dict2 : dict1[j] # dict2[j]}}]

\* A record list with the provenance fields removed from every record.
StripProvenance(data) ==
    [i \in 1..Len(data) |-> [f \in DOMAIN data[i] \ Provenance |-> data[i][f]]]

InitDiff ==
    /\ before_data \in RecordLists(NDiffKeys)
    /\ after_data \in RecordLists(NDiffKeys)
    /\ diff_pc = "input"
    /\ diff_ab = {} /\ diff_ba = {} /\ diff_stripped = {}
    /\ an_ab = {} /\ an_stripped = {}

ExecIdle ==
    /\ table = "airports" /\ snap = <<>> /\ prov = {} /\ mode = "off"
    /\ db = [t \in TableNames |-> <<>>] /\ tx = db /\ db0 = db /\ after_first = db
    /\ in_tx = FALSE /\ first_committed = FALSE /\ restore_list = <<>>
    /\ validation_result = NoValidation /\ pc = "off" /\ batch_num = 0
    /\ execution_result = EmptyResult
    /\ run = 1 /\ written_columns = {} /\ begun = 0 /\ failed_gate = "none"

\* The engine's diff in both directions and on the stripped lists.
CalculateDiff ==
    /\ diff_pc = "input"
    /\ diff_ab' = calculate_diff(before_data, after_data, "airports")
    /\ diff_ba' = calculate_diff(after_data, before_data, "airports")
    /\ diff_stripped' = calculate_diff(StripProvenance(before_data),
                                       StripProvenance(after_data), "airports")
    /\ diff_pc' = "engine"
    /\ UNCHANGED <<before_data, after_data, an_ab, an_stripped>>
    /\ UNCHANGED <<execVars, finderVars, handlerVars>>

\* The analyzer's diff on the lists and on the stripped lists.
AnalyzerCalculateDiff ==
    /\ diff_pc = "engine"
    /\ an_ab' = analyzer_calculate_diff(before_data, after_data, "airports")
    /\ an_stripped' = analyzer_calculate_diff(StripProvenance(before_data),
                                              StripProvenance(after_data), "airports")
    /\ diff_pc' = "done"
    /\ UNCHANGED <<before_data, after_data, diff_ab, diff_ba, diff_stripped>>
    /\ UNCHANGED <<execVars, finderVars, handlerVars>>

NextDiff == CalculateDiff \/ AnalyzerCalculateDiff

InitSpecDiff == InitDiff /\ ExecIdle /\ FinderIdle /\ HandlerIdle

SpecDiff == InitSpecDiff /\ [][NextDiff]_vars

\* Keys of a set of records.
KeysOf(rows) == {r["airport_id"] : r \in rows}

\* A modified entry with before and after exchanged.
Swapped(m) ==
    [before |-> m.after, after |-> m.before,
     changes |-> {[field |-> c.field, before |-> c.after, after |-> c.before] :
                     c \in m.changes}]

\* What a diff reports: the keys added, deleted and modified, and the field changes.
Reported(d) ==
    [added |-> KeysOf(d.added), deleted |-> KeysOf(d.deleted),
     modified |-> {[key |-> m.before["airport_id"], changes |-> m.changes] :
                      m \in d.modified}]

\* Every record of both lists has the same fields.
SameFields ==
    \A i \in 1..Len(before_data), j \in 1..Len(after_data) :
        DOMAIN before_data[i] = DOMAIN after_data[j]

\* C8 - Diff symmetry: diff(A,B).added = diff(B,A).deleted, diff(A,B).deleted =
\* diff(B,A).added, and the modified entries of diff(A,B) are those of diff(B,A) with
\* before and after exchanged, also when a field is present on one side only.
DiffSymmetry ==
    diff_pc = "done"
    => /\ diff_ab.added = diff_ba.deleted
       /\ diff_ab.deleted = diff_ba.added
       /\ diff_ab.modified = {Swapped(m) : m \in diff_ba.modified}

\* The part of C8 the engine's diff does satisfy: symmetry on records with equal fields.
DiffSymmetrySameFields ==
    (diff_pc = "done" /\ SameFields)
    => /\ diff_ab.added = diff_ba.deleted
       /\ diff_ab.deleted = diff_ba.added
       /\ diff_ab.modified = {Swapped(m) : m \in diff_ba.modified}

\* C9 - Provenance neutrality: removing the provenance fields from the input records
\* changes neither the keys reported added, deleted or modified nor the reported field
\* changes, for the engine's diff and for the analyzer's diff.
ProvenanceNeutrality ==
    diff_pc = "done"
    => /\ Reported(diff_ab) = Reported(diff_stripped)
       /\ Reported(an_ab) = Reported(an_stripped)

\* The part of C9 that holds: the engine's diff is provenance-neutral.
EngineDiffProvenanceNeutral ==
    diff_pc = "done" => Reported(diff_ab) = Reported(diff_stripped)

(***************************************************************************)
(* SpecFinder: the restore-point finder on a store with one disaster       *)
(***************************************************************************)
\* Instants are milliseconds.  The searched widths are 24 h / 2^k with k <= 9, which
\* are whole milliseconds, so the halving of a timedelta is exact on them.
Second == 1000

window_hours == 24
max_iterations == 15
precision_seconds == 300
boundary_window_seconds == 600
healthy_threshold == 80
boundary_step_minutes == 1

GridStep == 675     \* disasters are drawn around every GridStep-th second of the window

\* datetime.now() - 24 h, with the sub-second part of the clock
StartTimes == {0, 250, 999}

\* Offsets, in seconds, of the drawn disasters from the grid points: next to a grid
\* point and next to the last midpoints of the search (168.75 s and 337.5 s apart).
GridOffsets == {-1, 0, 1, 168, 169, 337, 338}

DisasterTimes(start, end) ==
    {t \in {(GridStep * k + d) * Second :
                k \in 0..((window_hours * 3600) \div GridStep), d \in GridOffsets} :
        start < t /\ t <= end}

\* strftime('%Y-%m-%d %H:%M:%S'): the instant a query reads is cut to whole seconds
AsOfInstant(timestamp) == (timestamp \div Second) * Second

\* The store of the property: healthy before the disaster, corrupted from it on.
SyntheticScore(t) == IF t < t_disaster THEN 100 ELSE 0

\* HealthScorer.score_health: scores the table as of the timestamp
score_health(timestamp) == SyntheticScore(AsOfInstant(timestamp))

\* SmartRestorePointFinder._validate_health_at_timestamp: scores the table as of it
validate_health_at_timestamp(timestamp) == SyntheticScore(AsOfInstant(timestamp))

search_forward_inverted(health_score) == health_score < healthy_threshold

\* if health_score >= 80: the disaster is later, search forward in time
search_forward(health_score) == health_score >= healthy_threshold

InitFinder ==
    /\ start_time \in StartTimes
    /\ end_time = start_time + window_hours * 3600 * Second
    /\ t_disaster \in DisasterTimes(start_time, end_time)
    /\ current_start = start_time
    /\ current_end = end_time
    /\ iterations = 0
    /\ best_timestamp = start_time
    /\ best_health_score = 0
    /\ finder_pc = "search"
    /\ boundary_probes = 0
    /\ boundary_current = 0
    /\ boundary_best_health = 0

\* Mutant of Midpoint: the probe lies past the right boundary.
midpoint_overshoot == current_end + (current_end - current_start) \div 2

\* midpoint = current_start + (current_end - current_start) / 2
Midpoint == current_start + (current_end - current_start) \div 2

\* The body of the binary search loop for the score its probe returned.
SearchStep(health_score) ==
    /\ finder_pc = "search"
    /\ current_end - current_start > precision_seconds * Second
    /\ iterations < max_iterations
    /\ iterations' = iterations + 1
    /\ IF health_score > best_health_score
       THEN best_timestamp' = Midpoint /\ best_health_score' = health_score
       ELSE UNCHANGED <<best_timestamp, best_health_score>>
    /\ IF search_forward(health_score)
       THEN current_start' = Midpoint /\ UNCHANGED current_end
       ELSE current_end' = Midpoint /\ UNCHANGED current_start
    /\ UNCHANGED <<start_time, end_time, t_disaster, finder_pc, boundary_probes,
                   boundary_current, boundary_best_health>>
    /\ UNCHANGED <<execVars, diffVars, handlerVars>>

\* One iteration of the binary search loop.
BinarySearchIteration == SearchStep(score_health(Midpoint))

\* The loop ends: within 10 minutes the boundary refinement starts, else the best
\* point of the search is returned.
BinarySearchExit ==
    /\ finder_pc = "search"
    /\ ~(/\ current_end - current_start > precision_seconds * Second
         /\ iterations < max_iterations)
    /\ IF current_end - current_start <= boundary_window_seconds * Second
       THEN /\ finder_pc' = "boundary"
            /\ best_timestamp' = current_start
            /\ boundary_best_health' = 0
            /\ boundary_current' = current_start
       ELSE /\ finder_pc' = "done"
            /\ UNCHANGED <<best_timestamp, boundary_best_health, boundary_current>>
    /\ UNCHANGED <<start_time, end_time, t_disaster, current_start, current_end,
                   iterations, best_health_score, boundary_probes>>
    /\ UNCHANGED <<execVars, diffVars, handlerVars>>

boundary_advance_second(current) == current + Second

\* current += timedelta(minutes=1)
boundary_advance(current) == current + boundary_step_minutes * 60 * Second

\* The body of the loop of _find_exact_boundary for the score its probe returned.
BoundaryStep(health_score) ==
    /\ finder_pc = "boundary"
    /\ boundary_current <= current_end
    /\ IF health_score > boundary_best_health
       THEN best_timestamp' = boundary_current /\ boundary_best_health' = health_score
       ELSE UNCHANGED <<best_timestamp, boundary_best_health>>
    /\ boundary_current' = boundary_advance(boundary_current)
    /\ boundary_probes' = boundary_probes + 1
    /\ UNCHANGED <<start_time, end_time, t_disaster, current_start, current_end,
                   iterations, best_health_score, finder_pc>>
    /\ UNCHANGED <<execVars, diffVars, handlerVars>>

\* One probe of _find_exact_boundary.
BoundaryProbe == BoundaryStep(validate_health_at_timestamp(boundary_current))

\* _find_exact_boundary returns its best timestamp.
BoundaryReturn ==
    /\ finder_pc = "boundary"
    /\ boundary_current > current_end
    /\ finder_pc' = "done"
    /\ UNCHANGED <<start_time, end_time, t_disaster, current_start, current_end,
                   iterations, best_timestamp, best_health_score, boundary_probes,
                   boundary_current, boundary_best_health>>
    /\ UNCHANGED <<execVars, diffVars, handlerVars>>

NextFinder ==
    \/ BinarySearchIteration
    \/ BinarySearchExit
    \/ BoundaryProbe
    \/ BoundaryReturn

InitSpecFinder == InitFinder /\ ExecIdle /\ DiffIdle /\ HandlerIdle

SpecFinder == InitSpecFinder /\ [][NextFinder]_vars

\* C10 - Finder monotonicity at boundaries: on a store that scores 100 before
\* t_disaster and 0 from it on, with t_disaster inside the search window, the finder
\* returns a timestamp in [t_disaster - 5 min, t_disaster) after at most 15 probes of
\* the search and at most 10 probes of the refinement.
FinderMonotoneBoundary ==
    finder_pc = "done"
    => /\ t_disaster - 5 * 60 * Second <= best_timestamp
       /\ best_timestamp < t_disaster
       /\ iterations <= 15
       /\ boundary_probes <= 10
       /\ iterations + boundary_probes <= 15 + 10

FinderMonotoneBoundaryWitness ==
    /\ finder_pc = "done"
    /\ iterations > 0 /\ boundary_probes > 0
    /\ start_time < best_timestamp
    /\ best_timestamp < t_disaster
    /\ t_disaster < end_time

(***************************************************************************)
(* SpecFinderAny: the finder when the probes may return any score          *)
(***************************************************************************)
\* The scores a probe may return: corrupted, just below and at the threshold, healthy.
ProbeScores == {0, healthy_threshold - 1, healthy_threshold, 100}

\* The disaster instant plays no part when the scores are arbitrary.
InitFinderAny ==
    /\ start_time \in StartTimes
    /\ end_time = start_time + window_hours * 3600 * Second
    /\ t_disaster = end_time
    /\ current_start = start_time
    /\ current_end = end_time
    /\ iterations = 0
    /\ best_timestamp = start_time
    /\ best_health_score = 0
    /\ finder_pc = "search"
    /\ boundary_probes = 0
    /\ boundary_current = 0
    /\ boundary_best_health = 0

InitSpecFinderAny == InitFinderAny /\ ExecIdle /\ DiffIdle /\ HandlerIdle

\* One iteration of the binary search loop, the probe returning any score.
BinarySearchIterationAny == \E health_score \in ProbeScores : SearchStep(health_score)

\* One probe of _find_exact_boundary returning any score.
BoundaryProbeAny == \E health_score \in ProbeScores : BoundaryStep(health_score)

NextFinderAny ==
    \/ BinarySearchIterationAny
    \/ BinarySearchExit
    \/ BoundaryProbeAny
    \/ BoundaryReturn

\* The finder is a sequential loop: a step that can be taken is taken.
SpecFinderAny == InitSpecFinderAny /\ [][NextFinderAny]_vars /\ WF_vars(NextFinderAny)

\* C11 - Finder convergence bound: over a 24-hour window, whatever scores the probes
\* return, the finder terminates, with at most 15 binary-search iterations, at most 10
\* refinement probes and at most 25 probes in all.
FinderConvergenceBound ==
    /\ [](/\ iterations <= 15
          /\ boundary_probes <= 10
          /\ iterations + boundary_probes <= 25)
    /\ <>(finder_pc = "done")

FinderConvergenceBoundWitness ==
    /\ finder_pc = "done"
    /\ iterations > 0 /\ boundary_probes > 0
    /\ best_health_score = 100 /\ boundary_best_health = 0
    /\ current_end < end_time /\ current_start > start_time

(***************************************************************************)
(* SpecScenarioS1: the finder with the health scorers on a seeded store    *)
(***************************************************************************)
MaxSeed == 4          \* seeded airports in the small scenarios
SeedRecords == 100    \* the seed case: 100 airports ...
SeedDeleted == 40     \* ... of which 40 are deleted

\* The store is seeded one hour before the call and the deletion happens 30 minutes
\* later (t_disaster).
SeedTime == end_time - 3600 * Second

\* An airport of the seeded store; cities are all distinct or all the same.
SeedAirport(k, distinct_cities) ==
    [airport_id |-> k, name |-> k, city |-> IF distinct_cities THEN k ELSE 1,
     country |-> 1]

\* FOR SYSTEM_TIME AS OF on the scenario's history: nothing before the seed, the seeded
\* rows (snap) until the deletion, the current rows from then on.
scenario_as_of(t, timestamp) ==
    LET instant == AsOfInstant(timestamp)
    IN  IF t # table THEN db[t]
        ELSE IF instant < SeedTime THEN <<>>
        ELSE IF instant < t_disaster THEN snap
        ELSE db[t]

\* Values of a field over the rows that have a truthy value for it.
TruthyValues(data, field) ==
    {Get(data[k], field) : k \in {j \in DOMAIN data : Get(data[j], field) # None}}
TruthyCount(data, field) ==
    Cardinality({j \in DOMAIN data : Get(data[j], field) # None})

required_fields(t) ==
    CASE t = "airports" -> {"airport_id", "name"}
      [] t = "airlines" -> {"airline_id", "name"}
      [] OTHER -> {"route_id"}

\* HealthScorer._get_expected_count: 80 % .. 120 % of the current record count
get_expected_count(t) ==
    LET baseline == Cardinality(DOMAIN db[t])
    IN  [min |-> (baseline * 8) \div 10, max |-> (baseline * 12) \div 10]

\* HealthScorer._check_record_count
check_record_count(data, t) ==
    LET expected == get_expected_count(t)
        actual == Cardinality(DOMAIN data)
    IN  IF expected.min <= actual /\ actual <= expected.max THEN 25
        ELSE IF 10 * actual >= 8 * expected.min THEN 15
        ELSE 0

\* HealthScorer._check_required_fields
check_required_fields(data, t) ==
    LET violations ==
            Cardinality({p \in (DOMAIN data) \X required_fields(t) :
                            Get(data[p[1]], p[2]) = None})
        total_checks == Cardinality(DOMAIN data) * Cardinality(required_fields(t))
    IN  IF violations = 0 THEN 25
        ELSE IF 10 * violations < total_checks THEN 15
        ELSE 0

\* HealthScorer._check_foreign_keys
check_foreign_keys(data, t, timestamp) ==
    IF t # "routes" THEN 25
    ELSE LET valid_ids == DOMAIN scenario_as_of("airports", timestamp)
             valid_routes ==
                Cardinality({k \in DOMAIN data :
                    /\ Get(data[k], "source_airport_id") \in valid_ids
                    /\ Get(data[k], "destination_airport_id") \in valid_ids})
             total == Cardinality(DOMAIN data)
         IN  IF 100 * valid_routes >= 95 * total THEN 25
             ELSE IF 10 * valid_routes >= 8 * total THEN 15
             ELSE 0

\* HealthScorer._check_data_distribution
check_data_distribution(data, t) ==
    IF t # "airports" THEN 25
    ELSE LET cities == TruthyCount(data, "city")
             unique_cities == Cardinality(TruthyValues(data, "city"))
             countries == TruthyCount(data, "country")
             unique_countries == Cardinality(TruthyValues(data, "country"))
         IN  (IF cities > 0 /\ 10 * unique_cities > 3 * cities THEN 15
              ELSE IF cities > 0 /\ 10 * unique_cities > cities THEN 10
              ELSE 5)
             + (IF countries > 0 /\ 10 * unique_countries > countries THEN 10 ELSE 5)

\* HealthScorer.score_health on the scenario's store
scorer_score_health(t, timestamp) ==
    LET data == scenario_as_of(t, timestamp)
    IN  IF DOMAIN data = {} THEN 0
        ELSE Min(check_record_count(data, t) + check_required_fields(data, t)
                 + check_foreign_keys(data, t, timestamp)
                 + check_data_distribution(data, t), 100)

\* SmartRestorePointFinder._get_expected_record_count: the larger of the count a week
\* ago and the current count, 80 % .. 120 %
get_expected_record_count(t) ==
    LET historical_count == Cardinality(DOMAIN scenario_as_of(t, end_time - 7 * 24 * 3600 * Second))
        current_count == Cardinality(DOMAIN db[t])
        baseline == IF historical_count > current_count THEN historical_count
                    ELSE current_count
    IN  [min |-> (baseline * 8) \div 10, max |-> (baseline * 12) \div 10]

\* SmartRestorePointFinder._check_required_fields
finder_check_required_fields(data, t) ==
    LET null_violations ==
            Cardinality({p \in (DOMAIN data) \X required_fields(t) :
                            Get(data[p[1]], p[2]) = None})
        total_checks == Cardinality(DOMAIN data) * Cardinality(required_fields(t))
    IN  IF null_violations = 0 THEN 25
        ELSE IF 10 * null_violations < total_checks THEN 20
        ELSE IF 10 * null_violations < 2 * total_checks THEN 10
        ELSE 0

\* SmartRestorePointFinder._validate_foreign_keys
finder_validate_foreign_keys(t, timestamp, data) ==
    IF t # "routes" \/ DOMAIN data = {} THEN 25
    ELSE LET valid_airport_ids == DOMAIN scenario_as_of("airports", timestamp)
             valid_routes ==
                Cardinality({k \in DOMAIN data :
                    /\ Get(data[k], "source_airport_id") \in valid_airport_ids
                    /\ Get(data[k], "destination_airport_id") \in valid_airport_ids})
             total_routes == Cardinality(DOMAIN data)
         IN  IF 100 * valid_routes >= 95 * total_routes THEN 25
             ELSE IF 10 * valid_routes >= 8 * total_routes THEN 20
             ELSE IF 10 * valid_routes >= 6 * total_routes THEN 10
             ELSE 0

\* SmartRestorePointFinder._check_data_distribution
finder_check_data_distribution(data, t) ==
    IF DOMAIN data = {} THEN 0
    ELSE IF t # "airports" THEN 25
    ELSE LET cities == TruthyCount(data, "city")
             unique_cities == Cardinality(TruthyValues(data, "city"))
             countries == TruthyCount(data, "country")
             unique_countries == Cardinality(TruthyValues(data, "country"))
         IN  Min((IF cities = 0 THEN 0
                  ELSE IF 10 * unique_cities > 3 * cities THEN 15
                  ELSE IF 10 * unique_cities > cities THEN 10
                  ELSE 5)
                 + (IF countries = 0 THEN 0
                    ELSE IF 10 * unique_countries > countries THEN 10
                    ELSE 5), 25)

\* SmartRestorePointFinder._validate_health_at_timestamp on the scenario's store
finder_validate_health(t, timestamp) ==
    LET data_at_timestamp == scenario_as_of(t, timestamp)
        expected_count == get_expected_record_count(t)
        actual_count == Cardinality(DOMAIN data_at_timestamp)
        count_score ==
            IF expected_count.min <= actual_count /\ actual_count <= expected_count.max
            THEN 25
            ELSE IF 10 * actual_count >= 8 * expected_count.min THEN 15
            ELSE IF actual_count > 0 THEN 5
            ELSE 0
    IN  IF DOMAIN data_at_timestamp = {} THEN 0
        ELSE Min(count_score + finder_check_required_fields(data_at_timestamp, t)
                 + finder_validate_foreign_keys(t, timestamp, data_at_timestamp)
                 + finder_check_data_distribution(data_at_timestamp, t), 100)

\* SmartRestorePointFinder._validate_stability: equal counts 2 minutes around
validate_stability(t, timestamp) ==
    LET count_before == Cardinality(DOMAIN scenario_as_of(t, timestamp - 2 * 60 * Second))
        count_at == Cardinality(DOMAIN scenario_as_of(t, timestamp))
        count_after == Cardinality(DOMAIN scenario_as_of(t, timestamp + 2 * 60 * Second))
    IN  count_before = count_at /\ count_at = count_after

\* SmartRestorePointFinder._calculate_confidence; boundary_clarity is
\* min(health_score / 100, 1)
calculate_confidence(health_score, is_stable) ==
    LET base == health_score + (IF is_stable THEN 10 ELSE -5)
        bonus == IF health_score > 90 THEN 10 ELSE IF health_score > 70 THEN 5 ELSE 0
    IN  IF base + bonus < 0 THEN 0 ELSE Min(100, base + bonus)

\* confidence_percentage of the result of find_optimal_restore_point
Confidence ==
    calculate_confidence(best_health_score, validate_stability(table, best_timestamp))

\* The seeded stores: n airports at the seed time, the first d of them deleted at
\* t_disaster, nothing else changed.
ScenarioSizes ==
    {<<n, d>> : n \in 1..MaxSeed, d \in 1..MaxSeed} \cup {<<SeedRecords, SeedDeleted>>}

InitScenarioStore ==
    /\ table = "airports" /\ prov = {} /\ mode = "off"
    /\ \E size \in {z \in ScenarioSizes : z[2] <= z[1]}, distinct_cities \in BOOLEAN :
          /\ snap = [k \in 1..size[1] |-> SeedAirport(k, distinct_cities)]
          /\ db = [t \in TableNames |->
                     IF t = "airports"
                     THEN [k \in (size[2] + 1)..size[1] |-> SeedAirport(k, distinct_cities)]
                     ELSE <<>>]
    /\ tx = db /\ db0 = db /\ after_first = db
    /\ in_tx = FALSE /\ first_committed = FALSE /\ restore_list = <<>>
    /\ validation_result = NoValidation /\ pc = "off" /\ batch_num = 0
    /\ execution_result = EmptyResult
    /\ run = 1 /\ written_columns = {} /\ begun = 0 /\ failed_gate = "none"

\* suggest_restore_point is called one hour after the seed, 30 minutes after the
\* deletion, with the default window.
InitFinderScenario ==
    /\ start_time \in StartTimes
    /\ end_time = start_time + window_hours * 3600 * Second
    /\ t_disaster = end_time - 30 * 60 * Second
    /\ current_start = start_time
    /\ current_end = end_time
    /\ iterations = 0
    /\ best_timestamp = start_time
    /\ best_health_score = 0
    /\ finder_pc = "search"
    /\ boundary_probes = 0
    /\ boundary_current = 0
    /\ boundary_best_health = 0

InitSpecScenarioS1 ==
    InitFinderScenario /\ InitScenarioStore /\ DiffIdle /\ HandlerIdle

\* One iteration of the binary search loop, scored by the HealthScorer.
ScenarioSearchIteration == SearchStep(scorer_score_health(table, Midpoint))

\* One probe of _find_exact_boundary, scored by the finder's own validation.
ScenarioBoundaryProbe == BoundaryStep(finder_validate_health(table, boundary_current))

NextScenarioS1 ==
    \/ ScenarioSearchIteration
    \/ BinarySearchExit
    \/ ScenarioBoundaryProbe
    \/ BoundaryReturn

SpecScenarioS1 == InitSpecScenarioS1 /\ [][NextScenarioS1]_vars

\* C12 - Scenario S1 generalised: on a store seeded with N airports at t0 of which a
\* subset is deleted at t0 + 30 min, the finder called at t0 + 1 h with the 24-hour
\* window returns a timestamp in [t0, t0 + 30 min) with confidence at least 80.
ScenarioS1RestorePoint ==
    finder_pc = "done"
    => /\ SeedTime <= best_timestamp
       /\ best_timestamp < t_disaster
       /\ Confidence >= 80

(***************************************************************************)
(* Further properties of Spec                                              *)
(***************************************************************************)
\* C13 - Full restore: after a successful restore(kind, t*) the current state holds
\* every record of the snapshot with its historical non-provenance values, has as many
\* records as the snapshot when no key was added since t*, and a repeated restore with
\* the same timestamp leaves the current state as the first left it.
FullRestoreComplete ==
    (Done /\ mode = "full" /\ execution_result.success)
    => /\ \A k \in DOMAIN snap :
            /\ k \in DOMAIN db[table]
            /\ \A c \in DOMAIN snap[k] : db[table][k][c] = snap[k][c]
       /\ DOMAIN db0[table] \subseteq DOMAIN snap
            => Cardinality(DOMAIN db[table]) = Cardinality(DOMAIN snap)
       /\ (run > 1 /\ first_committed) => db = after_first
       /\ tx = db

FullRestoreCompleteWitness ==
    /\ Done /\ mode = "full" /\ execution_result.success
    /\ run > 1 /\ first_committed
    /\ prov # {}
    /\ Cardinality(DOMAIN snap) >= 2
    /\ DOMAIN db[table] = DOMAIN snap

\* A first full restore that had deleted and modified records to bring back.
FullRestoreFirstRunWitness ==
    /\ Done /\ mode = "full" /\ execution_result.success /\ run = 1
    /\ \E k \in DOMAIN snap : k \notin DOMAIN db0[table]
    /\ \E k \in DOMAIN snap \cap DOMAIN db0[table] : db0[table][k] # snap[k]

(***************************************************************************)
(* SpecDryRun: restore with dry_run = true, selective restore without      *)
(* execute                                                                 *)
(***************************************************************************)
\* A table as the list of rows a query returns.
RowList(tbl) ==
    LET ids == KeySeq(DOMAIN tbl)
    IN  [i \in 1..Len(ids) |-> tbl[ids[i]]]

restore_diff_reversed(current_data, historical_data, t) ==
    calculate_diff(historical_data, current_data, t)

\* diff = engine.calculate_diff(current_data, historical_data, request.table)
restore_diff(current_data, historical_data, t) ==
    calculate_diff(current_data, historical_data, t)

\* A snapshot and a current state as in the varied family, optionally with the bulk
\* rows deleted since t*; the request is a dry run or a selective preview.
InitDryRun ==
    /\ table \in {"airports", "routes"}
    /\ mode \in {"dry_run", "preview"}
    /\ prov \in {{}, Provenance}
    /\ \E hs \in VersionChoices, cs \in VersionChoices, bulk \in BOOLEAN :
          /\ bulk => \A k \in VariedKeys \ {1} : hs[k] = 1 /\ cs[k] = 1
          /\ snap = MkTable(table, hs, bulk)
          /\ db = [t \in TableNames |->
                      IF t = table THEN MkTable(table, cs, FALSE)
                      ELSE FullRelated(table)[t]]
          /\ IF mode = "dry_run" THEN restore_list = <<>>
             ELSE \E keys \in SUBSET VariedKeys : InitRestoreList(keys, bulk)
    /\ tx = db /\ db0 = db /\ after_first = db
    /\ in_tx = FALSE /\ first_committed = FALSE
    /\ validation_result = NoValidation
    /\ pc = "start" /\ batch_num = 0
    /\ execution_result = EmptyResult
    /\ run = 1 /\ written_columns = {} /\ begun = 0 /\ failed_gate = "none"

InitSpecDryRun == InitDryRun /\ DiffIdle /\ FinderIdle /\ HandlerIdle

\* execute_restore with dry_run: the preview is computed and returned, restore_records
\* is not reached.
DryRunRestore ==
    /\ pc = "start" /\ mode = "dry_run"
    /\ LET historical_data == HistoricalData
           current_data == RowList(query_current(tx, table))
           diff == restore_diff(current_data, historical_data, table)
       IN  preview' = [NoPreview EXCEPT
                          !.made = TRUE,
                          !.records_to_restore = Len(historical_data),
                          !.will_add = Cardinality(diff.added),
                          !.will_update = Cardinality(diff.modified),
                          !.will_remove = Cardinality(diff.deleted)]
    /\ pc' = "done"
    /\ UNCHANGED <<execution_result, db, tx, in_tx, batch_num, validation_result,
                   written_columns, begun, failed_gate>>
    /\ UNCHANGED <<classification, created_recently, outcome, requestVars, coreVars, inputVars>>
    /\ ExecUnchanged
    /\ UNCHANGED <<diffVars, finderVars>>

\* execute_selective_restore handler without execute: the analysis and the counts of
\* the classification are returned; with no change at all there is nothing to preview.
PreviewSelective ==
    /\ pc = "start" /\ mode = "preview"
    /\ LET change_set == analyze_changes(table, snap, prov, tx)
       IN  IF Len(change_set) = 0
           THEN UNCHANGED preview
           ELSE preview' = [NoPreview EXCEPT !.made = TRUE,
                                             !.restore_count = Len(restore_list)]
    /\ pc' = "done"
    /\ UNCHANGED <<execution_result, db, tx, in_tx, batch_num, validation_result,
                   written_columns, begun, failed_gate>>
    /\ UNCHANGED <<classification, created_recently, outcome, requestVars, coreVars, inputVars>>
    /\ ExecUnchanged
    /\ UNCHANGED <<diffVars, finderVars>>

NextDryRun == DryRunRestore \/ PreviewSelective

SpecDryRun == InitSpecDryRun /\ [][NextDryRun]_vars

\* Keys of both states whose rows differ in a column of the table.
DifferingKeys(u, v) ==
    {k \in DOMAIN u \cap DOMAIN v : \E c \in Columns(table) : Get(u[k], c) # Get(v[k], c)}

\* C14 - Dry run and preview are read-only and report the restore direction: neither
\* writes nor begins a transaction, and the dry run reports will_add = keys of the
\* snapshot missing from current, will_update = keys in both whose non-provenance
\* fields differ, will_remove = keys of current that are not in the snapshot.
DryRunReadOnly ==
    pc = "done"
    => /\ db = db0 /\ tx = db0 /\ ~in_tx
       /\ begun = 0 /\ written_columns = {}
       /\ mode = "dry_run"
            => /\ preview.made
               /\ preview.will_add = Cardinality(DOMAIN snap \ DOMAIN db[table])
               /\ preview.will_update = Cardinality(DifferingKeys(snap, db[table]))
               /\ preview.will_remove = Cardinality(DOMAIN db[table] \ DOMAIN snap)

DryRunReadOnlyWitness ==
    /\ pc = "done" /\ mode = "dry_run"
    /\ prov # {}
    /\ preview.will_add >= BulkRows
    /\ preview.will_update = 1
    /\ preview.will_remove = 0

(***************************************************************************)
(* SpecHeuristic: classification without rules, then the executor          *)
(***************************************************************************)
mass_deletion_threshold == 10
critical_fields == {"name", "iata_code", "price"}

\* Mutant of heuristic_label: name is not among the critical fields.
heuristic_label_no_name(change, changes) ==
    LET deleted_count ==
            Cardinality({i \in 1..Len(changes) : changes[i].type = "deleted"})
    IN  CASE change.type = "added" ->
                IF change.id \in created_recently THEN "keep" ELSE "uncertain"
          [] change.type = "deleted" ->
                IF deleted_count > mass_deletion_threshold THEN "restore" ELSE "uncertain"
          [] OTHER ->
                IF \E cf \in change.changed_fields : cf.field \in {"iata_code", "price"}
                THEN "restore" ELSE "keep"

\* Mutant of heuristic_label: the creation timestamp is not found, so no addition
\* counts as recent.
heuristic_label_no_creation_time(change, changes) ==
    LET deleted_count ==
            Cardinality({i \in 1..Len(changes) : changes[i].type = "deleted"})
    IN  CASE change.type = "added" -> "uncertain"
          [] change.type = "deleted" ->
                IF deleted_count > mass_deletion_threshold THEN "restore" ELSE "uncertain"
          [] OTHER ->
                IF \E cf \in change.changed_fields : cf.field \in critical_fields
                THEN "restore" ELSE "keep"

\* _heuristic_analysis: the label of one change of the change set
heuristic_label(change, changes) ==
    LET deleted_count ==
            Cardinality({i \in 1..Len(changes) : changes[i].type = "deleted"})
    IN  CASE change.type = "added" ->
                IF change.id \in created_recently THEN "keep" ELSE "uncertain"
          [] change.type = "deleted" ->
                IF deleted_count > mass_deletion_threshold THEN "restore" ELSE "uncertain"
          [] OTHER ->
                IF \E cf \in change.changed_fields : cf.field \in critical_fields
                THEN "restore" ELSE "keep"

\* _heuristic_analysis: the three lists of the classification
heuristic_analysis(changes) ==
    LET labelled(l) == SelectSeq(changes, LAMBDA c : heuristic_label(c, changes) = l)
    IN  [keep_records |-> labelled("keep"),
         restore_records |-> labelled("restore"),
         uncertain_records |-> labelled("uncertain")]

IdsOf(list) == {list[i].id : i \in 1..Len(list)}

\* What happened to the bulk rows since t*: nothing stored, a number of them deleted,
\* all of them modified in the critical field, or all unchanged.
BulkHistories ==
    {<<"none", 0>>, <<"deleted", mass_deletion_threshold - 1>>,
     <<"deleted", mass_deletion_threshold>>, <<"deleted", BulkRows>>,
     <<"modified", BulkRows>>, <<"unchanged", BulkRows>>}

BulkPrefix(n) == (NVaried + 1)..(NVaried + n)

\* The store of a selective restore without rules: varied keys as in the varied
\* family, bulk rows with one of the histories, any added key possibly recent.
InitHeuristic ==
    /\ table \in {"airports", "routes"}
    /\ mode = "selective"
    /\ prov \in {{}, Provenance}
    /\ \E hs \in VersionChoices, cs \in VersionChoices, bulk \in BulkHistories :
          /\ \A k \in VariedKeys : <<hs[k], cs[k]>> \notin {<<0, 0>>, <<2, 2>>}
          /\ snap = [k \in {j \in VariedKeys : hs[j] # 0} \cup BulkPrefix(bulk[2]) |->
                        IF k \in VariedKeys THEN Version(table, k, hs[k])
                        ELSE Version(table, k, 1)]
          /\ db = [t \in TableNames |->
                     IF t # table THEN FullRelated(table)[t]
                     ELSE [k \in {j \in VariedKeys : cs[j] # 0}
                                 \cup (IF bulk[1] \in {"modified", "unchanged"}
                                       THEN BulkPrefix(bulk[2]) ELSE {}) |->
                             IF k \in VariedKeys THEN Version(table, k, cs[k])
                             ELSE Version(table, k, IF bulk[1] = "modified" THEN 2 ELSE 1)]]
          /\ created_recently \in SUBSET {k \in VariedKeys : hs[k] = 0}
    /\ restore_list = <<>>
    /\ tx = db /\ db0 = db /\ after_first = db
    /\ in_tx = FALSE /\ first_committed = FALSE
    /\ validation_result = NoValidation
    /\ pc = "classify" /\ batch_num = 0
    /\ execution_result = EmptyResult
    /\ run = 1 /\ written_columns = {} /\ begun = 0 /\ failed_gate = "none"
    /\ preview = NoPreview /\ classification = NoClassification /\ outcome = "none"
    /\ RequestIdle /\ CoreIdle /\ InputIdle

InitSpecHeuristic == InitHeuristic /\ DiffIdle /\ FinderIdle

\* The handler analyses the changes and classifies them without rules; with no change
\* or nothing labelled restore it returns, else the restore set goes to the validator.
ClassifyChanges ==
    /\ pc = "classify"
    /\ LET change_set == analyze_changes(table, snap, prov, tx)
           result == heuristic_analysis(change_set)
       IN  /\ classification' = [keep_records |-> IdsOf(result.keep_records),
                                 restore_records |-> IdsOf(result.restore_records),
                                 uncertain_records |-> IdsOf(result.uncertain_records)]
           /\ restore_list' = result.restore_records
           /\ pc' = IF Len(result.restore_records) = 0 THEN "done" ELSE "start"
    /\ UNCHANGED <<table, snap, prov, db, tx, in_tx, mode, validation_result, batch_num,
                   execution_result, run, db0, after_first, first_committed,
                   written_columns, begun, failed_gate>>
    /\ UNCHANGED <<preview, created_recently, outcome, requestVars, coreVars, inputVars>>
    /\ UNCHANGED <<diffVars, finderVars>>

NextHeuristic ==
    \/ ClassifyChanges
    \/ ValidateDependencies
    \/ BeginTransaction
    \/ ExecuteBatch
    \/ ValidateBatchIntegrity
    \/ FinalValidation

SpecHeuristic == InitSpecHeuristic /\ [][NextHeuristic]_vars

\* Keys of the snapshot missing from the state before the restore, and the reverse.
DeletedKeys == DOMAIN snap \ DOMAIN db0[table]
AddedKeys == DOMAIN db0[table] \ DOMAIN snap

\* C15 - Scenario S5 generalised: when the only changes since t* are modifications of
\* the name of a set of airports, the classifier without rules labels every one of them
\* restore, and after the executor committed the current state equals the snapshot.
ScenarioS5NameRestored ==
    (/\ table = "airports" /\ pc # "classify"
     /\ DeletedKeys = {} /\ AddedKeys = {}
     /\ DifferingKeys(snap, db0[table]) # {})
    => /\ classification.restore_records = DifferingKeys(snap, db0[table])
       /\ classification.keep_records = {}
       /\ classification.uncertain_records = {}
       /\ IdsOf(restore_list) = DifferingKeys(snap, db0[table])
       /\ (Done /\ execution_result.success) => (db[table] = snap /\ tx = db)

ScenarioS5NameRestoredWitness ==
    /\ table = "airports" /\ Done /\ execution_result.success
    /\ DeletedKeys = {} /\ AddedKeys = {}
    /\ Cardinality(DifferingKeys(snap, db0[table])) > batch_size
    /\ execution_result.batches_completed = 2

\* C16 - Scenario S6 generalised: when a record added within the last hour co-exists
\* with a mass deletion of more than 10 keys, the default heuristics label the addition
\* keep and every deletion restore, and after the selective restore committed the
\* current state holds every deleted record and the added record unchanged.
ScenarioS6KeepRecent ==
    (/\ pc # "classify"
     /\ created_recently # {}
     /\ Cardinality(DeletedKeys) > 10)
    => /\ created_recently \subseteq classification.keep_records
       /\ DeletedKeys \subseteq classification.restore_records
       /\ (Done /\ execution_result.success)
            => /\ \A k \in DeletedKeys :
                    k \in DOMAIN db[table] /\ db[table][k] = snap[k]
               /\ \A k \in created_recently :
                    k \in DOMAIN db[table] /\ db[table][k] = db0[table][k]

ScenarioS6KeepRecentWitness ==
    /\ Done /\ execution_result.success
    /\ created_recently # {}
    /\ Cardinality(DeletedKeys) = mass_deletion_threshold + 1
    /\ created_recently \subseteq DOMAIN db[table]
    /\ DeletedKeys \subseteq DOMAIN db[table]

(***************************************************************************)
(* SpecAbort: the selective restore command interrupted by the user        *)
(***************************************************************************)
\* engine.close() with a transaction open: the store discards the uncommitted work
conn_close(committed, working) == committed

InitSpecAbort == Init /\ mode = "selective"

\* KeyboardInterrupt raised in the executor's own code between begin and the final
\* check: `except Exception` does not catch it, main() reports the cancellation and
\* closes the engine.
KeyboardInterruptPropagates ==
    /\ pc \in {"batch", "probe", "final"} /\ in_tx
    /\ tx' = conn_close(db, tx) /\ in_tx' = FALSE
    /\ outcome' = "cancelled"
    /\ pc' = "done"
    /\ UNCHANGED <<db, batch_num, validation_result, written_columns, begun,
                   execution_result, failed_gate>>
    /\ UNCHANGED <<preview, classification, created_recently, requestVars, coreVars, inputVars>>
    /\ ExecUnchanged
    /\ UNCHANGED <<diffVars, finderVars>>

\* KeyboardInterrupt raised inside _validate_batch_integrity: its bare `except:`
\* catches it and returns False, the executor rolls back and reports a failed
\* integrity check.
KeyboardInterruptInProbe ==
    /\ pc = "probe"
    /\ tx' = on_failure(db, tx) /\ in_tx' = FALSE
    /\ execution_result' =
          [execution_result EXCEPT !.errors = Append(@, "Integrity check failed")]
    /\ failed_gate' = "probe" /\ pc' = "done"
    /\ outcome' = "failed"
    /\ UNCHANGED <<db, batch_num, validation_result, written_columns, begun>>
    /\ UNCHANGED <<preview, classification, created_recently, requestVars, coreVars, inputVars>>
    /\ ExecUnchanged
    /\ UNCHANGED <<diffVars, finderVars>>

\* KeyboardInterrupt raised inside _final_validation_check: its bare `except:` catches
\* it and returns False, the executor rolls back and reports a failed final validation.
KeyboardInterruptInFinalCheck ==
    /\ pc = "final"
    /\ tx' = on_failure(db, tx) /\ in_tx' = FALSE
    /\ execution_result' =
          [execution_result EXCEPT !.errors = Append(@, "Final validation failed")]
    /\ failed_gate' = "final" /\ pc' = "done"
    /\ outcome' = "failed"
    /\ UNCHANGED <<db, batch_num, validation_result, written_columns, begun>>
    /\ UNCHANGED <<preview, classification, created_recently, requestVars, coreVars, inputVars>>
    /\ ExecUnchanged
    /\ UNCHANGED <<diffVars, finderVars>>

\* KeyboardInterrupt raised after conn.commit() returned and before the executor's
\* result reached the command: the restore is committed, main() reports the
\* cancellation.
KeyboardInterruptAfterCommit ==
    /\ pc = "final"
    /\ final_validation_check(tx[table], restore_list)
    /\ db' = on_success(db, tx)
    /\ in_tx' = FALSE /\ pc' = "done"
    /\ outcome' = "cancelled"
    /\ UNCHANGED <<tx, batch_num, validation_result, written_columns, begun,
                   execution_result, failed_gate>>
    /\ UNCHANGED <<preview, classification, created_recently, requestVars, coreVars, inputVars>>
    /\ ExecUnchanged
    /\ UNCHANGED <<diffVars, finderVars>>

NextAbort ==
    \/ ValidateDependencies
    \/ ExecuteRefused
    \/ BeginTransaction
    \/ ExecuteBatch
    \/ ValidateBatchIntegrity
    \/ FinalValidation
    \/ KeyboardInterruptPropagates
    \/ KeyboardInterruptInProbe
    \/ KeyboardInterruptInFinalCheck
    \/ KeyboardInterruptAfterCommit

SpecAbort == InitSpecAbort /\ [][NextAbort]_vars

\* C17 - Cancellation: when an abort is observed during a restore, the in-flight
\* transaction is rolled back, the store equals its state before the operation and the
\* outcome is reported as aborted, distinct from success and from failure.
CancellationRollsBack ==
    outcome # "none"
    => /\ outcome = "cancelled"
       /\ ~in_tx
       /\ db = db0 /\ tx = db0

\* What does hold: an interrupted restore never leaves a part of the restore set.
InterruptedRestoreAllOrNothing ==
    outcome # "none"
    => /\ tx = db
       /\ \/ db = db0
          \/ \A i \in WrittenItems :
                LET k == restore_list[i].id
                IN  k \in DOMAIN db[table]
                    /\ \A c \in DOMAIN restore_payload(restore_list[i]) :
                          db[table][k][c] = restore_payload(restore_list[i])[c]

(***************************************************************************)
(* SpecHandlers: engines created and closed by API handlers and the CLI    *)
(***************************************************************************)
MaxRequests == 3

ApiHandlers ==
    {"health_check", "get_timeline", "get_state_at_timestamp", "get_diff_between_states",
     "suggest_restore_point", "execute_restore", "execute_selective_restore",
     "get_available_tables", "get_database_stats"}

Handlers == ApiHandlers \cup {"main"}

ExitPaths == {"success", "error", "abort"}

\* Does handler h call engine.close() when it leaves by this path?  health_check
\* closes after its query, inside the try; every other handler and main() close in a
\* `finally`.
closes_engine(h, path) ==
    IF h = "health_check" THEN path = "success" ELSE TRUE

\* the paths a handler can leave by: only the CLI sees the user's interrupt
exit_paths(h) == IF h = "main" THEN ExitPaths ELSE {"success", "error"}

InitSpecHandlers ==
    /\ ExecIdle /\ DiffIdle /\ FinderIdle
    /\ preview = NoPreview /\ classification = NoClassification
    /\ created_recently = {} /\ outcome = "none"
    /\ RequestIdle /\ CoreIdle /\ InputIdle

\* create_engine(): the connection is opened, or connecting fails and the request
\* ends with no engine.
CreateEngine ==
    /\ handler_pc = "idle" /\ requests < MaxRequests
    /\ \E h \in Handlers :
          /\ handler' = h
          /\ \/ /\ open_engines' = open_engines + 1
                /\ handler_pc' = "opened"
                /\ UNCHANGED <<requests, outcome>>
             \/ /\ handler_pc' = "idle"
                /\ outcome' = "error"
                /\ requests' = requests + 1
                /\ UNCHANGED open_engines
    /\ UNCHANGED <<preview, classification, created_recently, coreVars, inputVars>>
    /\ UNCHANGED <<execVars, diffVars, finderVars>>

\* the handler's store queries: they succeed, one raises, or (CLI) the user interrupts
StoreQuery ==
    /\ handler_pc = "opened"
    /\ \E path \in exit_paths(handler) : handler_pc' = path
    /\ UNCHANGED <<handler, open_engines, requests, outcome>>
    /\ UNCHANGED <<preview, classification, created_recently, coreVars, inputVars>>
    /\ UNCHANGED <<execVars, diffVars, finderVars>>

\* the handler returns its response
HandlerReturn ==
    /\ handler_pc \in ExitPaths
    /\ open_engines' =
          IF closes_engine(handler, handler_pc) THEN open_engines - 1 ELSE open_engines
    /\ outcome' = (IF handler_pc = "abort" THEN "cancelled" ELSE
                   IF handler_pc = "error" THEN "error" ELSE "ok")
    /\ handler_pc' = "idle"
    /\ requests' = requests + 1
    /\ UNCHANGED handler
    /\ UNCHANGED <<preview, classification, created_recently, coreVars, inputVars>>
    /\ UNCHANGED <<execVars, diffVars, finderVars>>

NextHandlers == CreateEngine \/ StoreQuery \/ HandlerReturn

SpecHandlers == InitSpecHandlers /\ [][NextHandlers]_vars

\* C18 - Resource release: every store connection opened for an operation is closed on
\* every exit path of that operation: once a handler or command has returned, no
\* engine it created is still open, also when a store query inside it raised.
ResourceRelease ==
    handler_pc = "idle" => open_engines = 0

\* What does hold: every handler other than health_check leaves no engine open.
ResourceReleaseFinally ==
    [][(handler_pc \in ExitPaths /\ handler_pc' = "idle" /\ handler # "health_check")
          => open_engines' = open_engines - 1]_vars

(***************************************************************************)
(* SpecErrors: core operations whose store calls may fail                  *)
(***************************************************************************)
MaxCalls == 3

CoreOperations ==
    {"find_optimal_restore_point", "analyze_changes", "classify_changes",
     "validate_dependencies", "execute_selective_restore", "restore_records"}

\* What each store call site of an operation does with an exception of the store, in
\* the order the operation reaches them:
\*   "propagates"  the call is outside any try: the exception leaves the operation
\*   "value"       an except clause turns it into a failure result with the error text
\*   "swallowed"   an except clause replaces it by a default (score 0, None, unstable)
\*                 and the operation goes on
store_call_sites(op) ==
    CASE op = "find_optimal_restore_point" ->
            <<"propagates", "swallowed", "swallowed", "swallowed">>
      [] op = "analyze_changes" -> <<"propagates", "propagates", "swallowed">>
      [] op = "classify_changes" -> <<>>
      [] op = "validate_dependencies" -> <<"propagates">>
      [] op = "execute_selective_restore" -> <<"value", "value", "value", "value", "value">>
      [] op = "restore_records" -> <<"value", "value", "value">>

InitSpecErrors ==
    /\ ExecIdle /\ DiffIdle /\ FinderIdle
    /\ preview = NoPreview /\ classification = NoClassification
    /\ created_recently = {} /\ outcome = "none"
    /\ RequestIdle /\ CoreIdle /\ InputIdle

\* a caller calls one core operation
CallOperation ==
    /\ op_result.status # "running" /\ calls_made < MaxCalls
    /\ \E op \in CoreOperations : operation' = op
    /\ call_site' = 1
    /\ op_result' = [NoOpResult EXCEPT !.status = "running"]
    /\ calls_made' = calls_made + 1
    /\ UNCHANGED <<preview, classification, created_recently, outcome, requestVars, inputVars>>
    /\ UNCHANGED <<execVars, diffVars, finderVars>>

\* the operation's next store call succeeds
StoreCallSucceeds ==
    /\ op_result.status = "running"
    /\ call_site <= Len(store_call_sites(operation))
    /\ call_site' = call_site + 1
    /\ UNCHANGED <<operation, op_result, calls_made>>
    /\ UNCHANGED <<preview, classification, created_recently, outcome, requestVars, inputVars>>
    /\ UNCHANGED <<execVars, diffVars, finderVars>>

\* the operation's next store call raises
StoreCallFails ==
    /\ op_result.status = "running"
    /\ call_site <= Len(store_call_sites(operation))
    /\ LET handling == store_call_sites(operation)[call_site]
           failed == IF op_result.failed_site = 0 THEN call_site
                     ELSE op_result.failed_site
       IN  \/ /\ handling = "propagates"
              /\ op_result' = [status |-> "raised", failed_site |-> failed,
                               success |-> FALSE, error |-> ""]
              /\ UNCHANGED call_site
           \/ /\ handling = "value"
              /\ op_result' = [status |-> "value", failed_site |-> failed,
                               success |-> FALSE, error |-> "store error"]
              /\ UNCHANGED call_site
           \/ /\ handling = "swallowed"
              /\ op_result' = [op_result EXCEPT !.failed_site = failed]
              /\ call_site' = call_site + 1
    /\ UNCHANGED <<operation, calls_made>>
    /\ UNCHANGED <<preview, classification, created_recently, outcome, requestVars, inputVars>>
    /\ UNCHANGED <<execVars, diffVars, finderVars>>

\* the operation reaches its return statement
OperationReturns ==
    /\ op_result.status = "running"
    /\ call_site > Len(store_call_sites(operation))
    /\ op_result' = [op_result EXCEPT !.status = "value", !.success = TRUE]
    /\ UNCHANGED <<operation, call_site, calls_made>>
    /\ UNCHANGED <<preview, classification, created_recently, outcome, requestVars, inputVars>>
    /\ UNCHANGED <<execVars, diffVars, finderVars>>

NextErrors == CallOperation \/ StoreCallSucceeds \/ StoreCallFails \/ OperationReturns

SpecErrors == InitSpecErrors /\ [][NextErrors]_vars

\* C19 - Errors as values: when a store call fails inside a core operation, the
\* operation returns a result value marking failure with a non-empty error description
\* and never propagates an exception to its caller.
ErrorsAsValues ==
    (op_result.status \in {"value", "raised"} /\ op_result.failed_site # 0)
    => /\ op_result.status = "value"
       /\ ~op_result.success
       /\ op_result.error # ""

\* What does hold: the two operations that write to the store report every store
\* failure as a value.
WritersReportErrorsAsValues ==
    (/\ operation \in {"execute_selective_restore", "restore_records"}
     /\ op_result.status \in {"value", "raised"} /\ op_result.failed_site # 0)
    => /\ op_result.status = "value"
       /\ ~op_result.success
       /\ op_result.error # ""

(***************************************************************************)
(* Further properties of Spec: what a reader on another connection sees    *)
(***************************************************************************)
\* Every writing item of the restore set is in table tbl with its restored values.
AllApplied(tbl) ==
    \A i \in WrittenItems :
       LET k == restore_list[i].id
       IN  /\ k \in DOMAIN tbl
           /\ \A c \in DOMAIN restore_payload(restore_list[i]) :
                 tbl[k][c] = restore_payload(restore_list[i])[c]

\* C20 - No partial state is observable: during a selective restore a reader on another
\* connection sees the state before the operation until the single commit and the
\* whole restore set after it, never a state with only some records applied; a run
\* that does not commit shows the reader nothing.
NoPartialStateObservable ==
    mode = "selective"
    => /\ in_tx => db = db0
       /\ db # db0 => /\ AllApplied(db[table])
                      /\ execution_result.success
                      /\ \A t \in DOMAIN db : t # table => db[t] = db0[t]
       /\ (pc = "done" /\ ~execution_result.success) => db = db0

\* One batch is written and not committed while another is still to come.
NoPartialStateObservableWitness ==
    /\ mode = "selective" /\ in_tx /\ pc = "batch"
    /\ batch_num = 2 /\ NumBatches(restore_list) = 2
    /\ tx # db /\ db = db0
    /\ ~AllApplied(tx[table])

\* The restore of two batches committed: the reader sees every record of both.
NoPartialStateCommittedWitness ==
    /\ mode = "selective" /\ pc = "done" /\ execution_result.success
    /\ execution_result.batches_completed = 2
    /\ db # db0 /\ AllApplied(db[table])

(***************************************************************************)
(* SpecRules: classify_changes with and without a rule list                *)
(***************************************************************************)
MaxRules == 2
Old == 1       \* a timestamp more than an hour ago
Recent == 2    \* a timestamp within the last hour

\* rule['field_pattern'] in field: the substring test on the field names that occur
contains(field, pattern) ==
    \/ pattern = field
    \/ <<pattern, field>> \in {<<"am", "name">>, <<"it", "city">>, <<"id", "airport_id">>}

\* A rule dict; "-" and <<>> stand for a key the rule does not have.
Rule(ct, fp, tr, a) ==
    [f \in {"action"} \cup (IF ct # "-" THEN {"change_type"} ELSE {})
                      \cup (IF fp # "-" THEN {"field_pattern"} ELSE {})
                      \cup (IF tr # <<>> THEN {"time_range"} ELSE {}) |->
        CASE f = "action" -> a
          [] f = "change_type" -> ct
          [] f = "field_pattern" -> fp
          [] OTHER -> tr]

RuleActions == {"keep", "restore", "uncertain"}

RuleChoices ==
    {Rule(ct, fp, tr, a) : ct \in {"-", "added", "modified"}, fp \in {"-", "am", "city"},
                           tr \in {<<>>, <<Recent, Recent>>}, a \in RuleActions}

RuleLists == UNION {[1..n -> RuleChoices] : n \in 0..MaxRules}

\* change['data'].get('creation_timestamp') or change['data'].get('modification_timestamp'):
\* a deleted record carries neither key
change_time(change) ==
    IF change.type = "deleted" THEN None ELSE change_times[change.id]

\* _matches_rule(change, rule)
matches_rule(change, rule) ==
    /\ "change_type" \in DOMAIN rule => change.type = rule.change_type
    /\ ("field_pattern" \in DOMAIN rule /\ change.type = "modified")
          => \E cf \in change.changed_fields : contains(cf.field, rule.field_pattern)
    /\ ("time_range" \in DOMAIN rule /\ change_time(change) # None)
          => /\ rule.time_range[1] <= change_time(change)
             /\ change_time(change) <= rule.time_range[2]

\* The rule at which the loop over the rules breaks, 0 when no rule matches.
first_match(change, rule_list) ==
    LET matching == {i \in 1..Len(rule_list) : matches_rule(change, rule_list[i])}
    IN  IF matching = {} THEN 0 ELSE CHOOSE i \in matching : \A j \in matching : i <= j

\* _apply_rules: a change is appended to keep_records or restore_records when the rule
\* it matched first has that action, to uncertain_records when it matched no rule
apply_rules(changes, rule_list) ==
    LET action_of(c) == rule_list[first_match(c, rule_list)].action
        matched(c) == first_match(c, rule_list) # 0
    IN  [keep_records |->
            SelectSeq(changes, LAMBDA c : matched(c) /\ action_of(c) = "keep"),
         restore_records |->
            SelectSeq(changes, LAMBDA c : matched(c) /\ action_of(c) = "restore"),
         uncertain_records |-> SelectSeq(changes, LAMBDA c : ~matched(c))]

\* classify_changes: `if rules:` is false for the empty list as for None
classify_changes(changes, rule_list) ==
    IF rule_list # <<>> THEN apply_rules(changes, rule_list)
    ELSE heuristic_analysis(changes)

\* What happened to a varied key since t*: deleted, added or modified.
RuleHistories == [VariedKeys -> {"deleted", "added", "modified"}]

InitRules ==
    /\ table = "airports"
    /\ mode = "selective"
    /\ prov = {}
    /\ \E h \in RuleHistories :
          /\ snap = [k \in {j \in VariedKeys : h[j] # "added"} |-> Version(table, k, 1)]
          /\ db = [t \in TableNames |->
                     IF t # table THEN FullRelated(table)[t]
                     ELSE [k \in {j \in VariedKeys : h[j] # "deleted"} |->
                             Version(table, k, IF h[k] = "modified" THEN 2 ELSE 1)]]
    /\ change_times \in [VariedKeys -> {None, Old, Recent}]
    /\ created_recently =
          {k \in VariedKeys : k \notin DOMAIN snap /\ change_times[k] = Recent}
    /\ rules \in RuleLists
    /\ restore_list = <<>>
    /\ tx = db /\ db0 = db /\ after_first = db
    /\ in_tx = FALSE /\ first_committed = FALSE
    /\ validation_result = NoValidation
    /\ pc = "classify" /\ batch_num = 0
    /\ execution_result = EmptyResult
    /\ run = 1 /\ written_columns = {} /\ begun = 0 /\ failed_gate = "none"
    /\ preview = NoPreview /\ classification = NoClassification /\ outcome = "none"
    /\ RequestIdle /\ CoreIdle
    /\ count_baseline = 0 /\ count_at_time = 0 /\ count_scores = NoScores

InitSpecRules == InitRules /\ DiffIdle /\ FinderIdle

\* The handler analyses the changes and classifies them with the request's rules.
ClassifyWithRules ==
    /\ pc = "classify"
    /\ LET change_set == analyze_changes(table, snap, prov, tx)
           result == classify_changes(change_set, rules)
       IN  /\ classification' = [keep_records |-> IdsOf(result.keep_records),
                                 restore_records |-> IdsOf(result.restore_records),
                                 uncertain_records |-> IdsOf(result.uncertain_records)]
           /\ restore_list' = result.restore_records
    /\ pc' = "done"
    /\ UNCHANGED <<table, snap, prov, db, tx, in_tx, mode, validation_result, batch_num,
                   execution_result, run, db0, after_first, first_committed,
                   written_columns, begun, failed_gate>>
    /\ UNCHANGED <<preview, created_recently, outcome, requestVars, coreVars, inputVars>>
    /\ UNCHANGED <<diffVars, finderVars>>

NextRules == ClassifyWithRules

SpecRules == InitSpecRules /\ [][NextRules]_vars

\* The changes the classifier was given.
ChangeSet == analyze_changes(table, snap, prov, db0)

\* The lists of the classification that hold the change with this id.
LabelsOf(id) ==
    {l \in {"keep", "restore", "uncertain"} :
        id \in (CASE l = "keep" -> classification.keep_records
                  [] l = "restore" -> classification.restore_records
                  [] OTHER -> classification.uncertain_records)}

\* The rules, in list order, that precede index i and match the change.
EarlierMatches(c, i) == {j \in 1..(i - 1) : matches_rule(c, rules[j])}

\* C21 - Rule evaluation order: with a rule list, every change is labelled with the
\* action of the first rule in list order that matches it, whatever later rules match,
\* and a change that no rule matches is labelled uncertain.
RuleEvaluationOrder ==
    (pc = "done" /\ rules # <<>>)
    => \A n \in 1..Len(ChangeSet) :
          LET c == ChangeSet[n]
          IN  /\ \A i \in 1..Len(rules) :
                    (matches_rule(c, rules[i]) /\ EarlierMatches(c, i) = {})
                    => LabelsOf(c.id) = {rules[i].action}
              /\ (\A i \in 1..Len(rules) : ~matches_rule(c, rules[i]))
                    => LabelsOf(c.id) = {"uncertain"}

\* What does hold: the order of evaluation, for rules whose action is keep or restore.
RuleEvaluationOrderKeepRestore ==
    (pc = "done" /\ rules # <<>>)
    => \A n \in 1..Len(ChangeSet) :
          LET c == ChangeSet[n]
          IN  /\ \A i \in 1..Len(rules) :
                    (/\ matches_rule(c, rules[i]) /\ EarlierMatches(c, i) = {}
                     /\ rules[i].action \in {"keep", "restore"})
                    => LabelsOf(c.id) = {rules[i].action}
              /\ (\A i \in 1..Len(rules) : ~matches_rule(c, rules[i]))
                    => LabelsOf(c.id) = {"uncertain"}

\* C22 - Classification is a partition: for every change set and every rule list, the
\* empty one and rules with any action included, every change appears in exactly one of
\* keep_records, restore_records and uncertain_records, and the three counts sum to
\* total_changes.
ClassificationPartition ==
    pc = "done"
    => /\ \A n \in 1..Len(ChangeSet) : Cardinality(LabelsOf(ChangeSet[n].id)) = 1
       /\ Cardinality(classification.keep_records)
             + Cardinality(classification.restore_records)
             + Cardinality(classification.uncertain_records) = Len(ChangeSet)

\* What does hold: no change is in two lists, and the default heuristics and rule lists
\* with actions keep and restore only give a partition.
ClassificationDisjoint ==
    pc = "done"
    => /\ \A n \in 1..Len(ChangeSet) : Cardinality(LabelsOf(ChangeSet[n].id)) <= 1
       /\ (\A i \in 1..Len(rules) : rules[i].action \in {"keep", "restore"})
             => \A n \in 1..Len(ChangeSet) : Cardinality(LabelsOf(ChangeSet[n].id)) = 1

\* C23 - Missing timestamps demote to uncertain: under the default heuristics a change
\* whose timestamp the audit lookup did not find is labelled uncertain, never keep or
\* restore.
MissingTimestampUncertain ==
    (pc = "done" /\ rules = <<>>)
    => \A n \in 1..Len(ChangeSet) :
          change_times[ChangeSet[n].id] = None
          => LabelsOf(ChangeSet[n].id) = {"uncertain"}

\* What does hold: an added record without a creation timestamp is labelled uncertain.
MissingCreationTimeUncertain ==
    (pc = "done" /\ rules = <<>>)
    => \A n \in 1..Len(ChangeSet) :
          (ChangeSet[n].type = "added" /\ change_times[ChangeSet[n].id] = None)
          => LabelsOf(ChangeSet[n].id) = {"uncertain"}

(***************************************************************************)
(* Further properties of Spec: the dependency validation                   *)
(***************************************************************************)
\* The restored records (deleted or modified) whose historical payload has a referent
\* missing from the current state the validator read.
DanglingAirportItems ==
    {i \in WrittenItems : ~AirportRefsResolve(restore_list[i].historical_data, db0)}

DanglingAirlineItems ==
    {i \in WrittenItems : ~AirlineRefResolves(restore_list[i].historical_data, db0)}

\* The current routes that refer to an airport the restore set brings back.
ReferringRoutes ==
    {r \in DOMAIN db0["routes"] :
        \E i \in 1..Len(restore_list) :
           /\ restore_list[i].type = "deleted"
           /\ restore_list[i].id \in {db0["routes"][r]["source_airport_id"],
                                      db0["routes"][r]["destination_airport_id"]}}

\* C24 - Outgoing-reference validation: for a restore set on routes, safe_to_restore is
\* false and a foreign_key_issue is recorded if and only if some restored record has a
\* referent that does not exist in the current state of the referenced kind; a restore
\* set on airports is never blocked, only warned with the count of referring routes.
OutgoingReferenceValidation ==
    (mode = "selective" /\ pc # "start")
    => /\ table = "routes"
          => /\ ~validation_result.safe_to_restore
                   <=> (DanglingAirportItems # {} \/ DanglingAirlineItems # {})
             /\ ~validation_result.safe_to_restore
                   <=> validation_result.foreign_key_issues # {}
       /\ table = "airports"
          => /\ validation_result.safe_to_restore
             /\ validation_result.foreign_key_issues = {}
             /\ validation_result.cascade_impact = Cardinality(ReferringRoutes)
             /\ validation_result.warnings = (IF ReferringRoutes # {} THEN 1 ELSE 0)

\* What does hold: the same with the airport referents only.
AirportReferenceValidation ==
    (mode = "selective" /\ pc # "start")
    => /\ table = "routes"
          => /\ ~validation_result.safe_to_restore <=> DanglingAirportItems # {}
             /\ ~validation_result.safe_to_restore
                   <=> validation_result.foreign_key_issues # {}
       /\ table = "airports"
          => /\ validation_result.safe_to_restore
             /\ validation_result.foreign_key_issues = {}
             /\ validation_result.cascade_impact = Cardinality(ReferringRoutes)
             /\ validation_result.warnings = (IF ReferringRoutes # {} THEN 1 ELSE 0)

(***************************************************************************)
(* Further properties of Spec: the order of the executor's gates           *)
(***************************************************************************)
\* Every key the restore set writes is in table tbl.
TargetsPresent(tbl) == \A i \in WrittenItems : restore_list[i].id \in DOMAIN tbl

\* The step ends the open transaction by a commit / by a rollback.
CommitStep ==
    /\ in_tx /\ ~in_tx'
    /\ failed_gate' = "none"
    /\ db' = tx /\ tx' = tx
    /\ execution_result'.success

RollbackStep ==
    /\ in_tx /\ ~in_tx'
    /\ failed_gate' # "none"
    /\ db' = db /\ tx' = db
    /\ ~execution_result'.success

\* the order of the gates, step by step
GateStep ==
    mode = "selective"
    => \* the writes of batch i are followed by the probe of batch i
       /\ (tx' # tx /\ in_tx')
             => (pc = "batch" /\ pc' = "probe" /\ batch_num' = batch_num)
       \* batch i+1 is entered only from the probe of batch i, which passed
       /\ (pc' = "batch" /\ pc = "probe")
             => /\ batch_num' = batch_num + 1
                /\ duplicates(tx[table], table) = {}
                /\ tx' = tx
       /\ (pc' = "batch" /\ pc # "probe") => (pc = "validated" /\ batch_num' = 1)
       \* the terminal check comes after the probe of the last batch
       /\ (pc' = "final" /\ pc # "final")
             => \/ pc = "probe" /\ batch_num = NumBatches(restore_list)
                      /\ duplicates(tx[table], table) = {}
                \/ pc = "validated" /\ NumBatches(restore_list) = 0
       \* commit only from the terminal check, with every targeted key present
       /\ (db' # db \/ (execution_result'.success /\ ~execution_result.success))
             => /\ pc = "final" /\ CommitStep
                /\ TargetsPresent(tx[table])
                /\ execution_result.batches_completed = NumBatches(restore_list)
       \* a begun transaction ends by exactly one commit or rollback
       /\ (in_tx /\ ~in_tx') => (CommitStep \/ RollbackStep) /\ pc' = "done"
       /\ (~in_tx /\ in_tx') => pc = "validated"

\* C25 - Gate ordering in the executor: the duplicate-key probe of batch i runs after
\* the writes of batch i and before any write of batch i+1, the terminal check runs
\* after the last batch, commit happens only after every probe passed and the terminal
\* check found every targeted key present; a transaction that was begun ends in exactly
\* one commit or rollback, and success is true if and only if it committed.
GateOrdering ==
    /\ [][GateStep]_vars
    /\ [](mode = "selective"
            => /\ (Done /\ begun > 0) => ~in_tx
               /\ execution_result.success
                     <=> (Done /\ begun > 0 /\ failed_gate = "none"
                          /\ db = tx /\ TargetsPresent(db[table])))

\* A restore set of two batches went through both probes and the terminal check and
\* committed.
GateOrderingWitness ==
    /\ Done /\ mode = "selective" /\ execution_result.success
    /\ execution_result.batches_completed = 2
    /\ db # db0

(***************************************************************************)
(* SpecConcurrent: a routes restore with a concurrent writer on airports   *)
(***************************************************************************)
InitSpecConcurrent == Init /\ mode = "selective" /\ table = "routes"

\* Another connection deletes an airport and commits, after validate_dependencies
\* returned and before the executor's transaction ended.  No statement of the restoring
\* connection locks the airports it read, and the schema declares no foreign key, so
\* the delete is not blocked.
ConcurrentDelete ==
    /\ pc \in {"validated", "batch", "probe", "final"}
    /\ \E a \in DOMAIN db["airports"] :
          LET remaining == [k \in DOMAIN db["airports"] \ {a} |-> db["airports"][k]]
          IN  /\ db' = [db EXCEPT !["airports"] = remaining]
              /\ tx' = [tx EXCEPT !["airports"] = remaining]
    /\ UNCHANGED <<pc, in_tx, batch_num, validation_result, written_columns, begun,
                   execution_result, failed_gate>>
    /\ ExecUnchanged /\ OthersUnchanged

NextConcurrent ==
    \/ ValidateDependencies
    \/ ExecuteRefused
    \/ BeginTransaction
    \/ ExecuteBatch
    \/ ValidateBatchIntegrity
    \/ FinalValidation
    \/ ConcurrentDelete

SpecConcurrent == InitSpecConcurrent /\ [][NextConcurrent]_vars

\* C26 - Validation reads are inside the write transaction: a concurrent writer that
\* deletes a referenced airport between the validation and the commit cannot produce a
\* committed restored route whose airport reference dangles.
ValidationInsideTransaction ==
    (Done /\ execution_result.success)
    => \A i \in WrittenItems :
          /\ restore_list[i].id \in DOMAIN db["routes"]
          /\ AirportRefsResolve(db["routes"][restore_list[i].id], db)

\* The referent-existence reads were made while no transaction was open.
ValidationReadsOutsideTransaction ==
    [][(pc = "start" /\ pc' = "validated") => (~in_tx /\ ~in_tx' /\ begun = 0)]_vars

(***************************************************************************)
(* SpecRecordCount: the record-count check of the two health scorers       *)
(***************************************************************************)
MaxCount == 12

\* {'min': int(baseline * 0.8), 'max': int(baseline * 1.2)}
expected_range(baseline) ==
    [min |-> (baseline * 8) \div 10, max |-> (baseline * 12) \div 10]

\* HealthScorer._check_record_count on an expected range and a count
scorer_count_score(expected, actual) ==
    IF expected.min <= actual /\ actual <= expected.max THEN 25
    ELSE IF 10 * actual >= 8 * expected.min THEN 15
    ELSE 0

\* SmartRestorePointFinder._validate_health_at_timestamp, check 1
finder_count_score(expected, actual) ==
    IF expected.min <= actual /\ actual <= expected.max THEN 25
    ELSE IF 10 * actual >= 8 * expected.min THEN 15
    ELSE IF actual > 0 THEN 5
    ELSE 0

InitRecordCount ==
    /\ count_baseline \in 0..MaxCount
    /\ count_at_time \in 0..MaxCount
    /\ count_scores = NoScores
    /\ rules = <<>> /\ change_times = NoTimes

InitSpecRecordCount ==
    /\ ExecIdle /\ DiffIdle /\ FinderIdle
    /\ preview = NoPreview /\ classification = NoClassification
    /\ created_recently = {} /\ outcome = "none"
    /\ RequestIdle /\ CoreIdle
    /\ InitRecordCount

\* One probe: the scorer of the binary search and the scorer of the refinement both
\* score the count of the same snapshot against the same baseline.
CheckRecordCount ==
    /\ count_scores = NoScores
    /\ count_scores' =
          [scorer |-> scorer_count_score(expected_range(count_baseline), count_at_time),
           finder |-> finder_count_score(expected_range(count_baseline), count_at_time)]
    /\ UNCHANGED <<count_baseline, count_at_time, classifierVars>>
    /\ UNCHANGED <<preview, classification, created_recently, outcome, requestVars,
                   coreVars>>
    /\ UNCHANGED <<execVars, diffVars, finderVars>>

NextRecordCount == CheckRecordCount

SpecRecordCount == InitSpecRecordCount /\ [][NextRecordCount]_vars

\* The score the specification gives for baseline B and count n.
SpecifiedCountScore(B, n) ==
    IF 8 * B <= 10 * n /\ 10 * n <= 12 * B THEN 25
    ELSE IF 10 * n >= 8 * B THEN 15
    ELSE IF n > 0 THEN 5
    ELSE 0

\* C27 - Record-count plausibility check: with baseline B and n records at the probed
\* timestamp the check scores 25 if 0.8 B <= n <= 1.2 B, 15 if n >= 0.8 B outside the
\* band, 5 if n > 0 otherwise and 0 if the snapshot is empty, and the scorer of the
\* binary search and the scorer of the boundary refinement give the same score.
RecordCountScore ==
    count_scores # NoScores
    => /\ count_scores.scorer = SpecifiedCountScore(count_baseline, count_at_time)
       /\ count_scores.finder = SpecifiedCountScore(count_baseline, count_at_time)
       /\ count_scores.scorer = count_scores.finder

\* What does hold: inside the band both score 25, above it both score 15, and the two
\* differ only where the refinement's scorer gives 5 and the other 0.
RecordCountScoreAgreement ==
    count_scores # NoScores
    => /\ (8 * count_baseline <= 10 * count_at_time
           /\ 10 * count_at_time <= 12 * count_baseline)
             => (count_scores.scorer = 25 /\ count_scores.finder = 25)
       /\ 10 * count_at_time > 12 * count_baseline
             => (count_scores.scorer = 15 /\ count_scores.finder = 15)
       /\ count_scores.scorer # count_scores.finder
             => (count_scores.scorer = 0 /\ count_scores.finder = 5)

(***************************************************************************)
(* Further properties of SpecFinder and SpecFinderAny                      *)
(***************************************************************************)
\* C28 - The finder's reported best is the highest-scoring probed timestamp: after the
\* search and the boundary refinement, the returned health_score is the health score
\* of the returned optimal_timestamp, and no probed timestamp scored strictly higher.
FinderBestIsHighest ==
    finder_pc = "done"
    => /\ best_health_score = validate_health_at_timestamp(best_timestamp)
       /\ boundary_best_health <= best_health_score

\* What does hold: the returned timestamp is the first highest-scoring probe of the
\* refinement, and the returned score is the highest score of the binary search.
FinderBestOfRefinement ==
    finder_pc = "done"
    => /\ boundary_best_health = validate_health_at_timestamp(best_timestamp)
       /\ current_start <= best_timestamp /\ best_timestamp <= current_end
       /\ best_health_score \in {0, 100}

(***************************************************************************)
(* Further properties of Spec: entries of type added                       *)
(***************************************************************************)
\* The change of entry i of the restore set is undone in table tbl.
Undone(i, tbl) ==
    LET item == restore_list[i]
    IN  IF item.type = "added" THEN item.id \notin DOMAIN tbl
        ELSE /\ item.id \in DOMAIN tbl
             /\ \A c \in DOMAIN restore_payload(item) :
                   tbl[item.id][c] = restore_payload(item)[c]

\* C29 - Every entry of the restore set is applied or the restore does not succeed:
\* when execute_selective_restore returns success, records_processed equals the number
\* of entries of the restore set and each entry's change has been undone in current; an
\* entry of type added is no longer in current.
EveryEntryApplied ==
    (Done /\ mode = "selective" /\ execution_result.success)
    => /\ execution_result.records_processed = Len(restore_list)
       /\ \A i \in 1..Len(restore_list) : Undone(i, db[table])

\* What does hold: the deleted and modified entries are all applied and counted.
EveryWritingEntryApplied ==
    (Done /\ mode = "selective" /\ execution_result.success)
    => /\ execution_result.records_processed = Cardinality(WrittenItems)
       /\ \A i \in WrittenItems : Undone(i, db[table])

\* the window of the binary search before and after one iteration
WindowStep ==
    iterations' = iterations + 1
    => LET width == current_end - current_start
           width_after == current_end' - current_start'
       IN  /\ \/ /\ current_end' = current_end
                 /\ current_start < current_start' /\ current_start' < current_end
              \/ /\ current_start' = current_start
                 /\ current_start < current_end' /\ current_end' < current_end
           /\ 2 * width_after <= width + 1
           /\ 2 * width_after >= width - 1

\* C30 - Binary-search window invariant: in every state of the binary search
\* t_start <= lo <= hi <= t_end, each iteration replaces exactly one of lo and hi by the
\* midpoint so that the width of the window halves, and the timestamp the finder
\* returns lies in [t_start, t_end].
SearchWindowInvariant ==
    /\ [](finder_pc # "off"
            => /\ start_time <= current_start
               /\ current_start <= current_end
               /\ current_end <= end_time
               /\ start_time <= best_timestamp /\ best_timestamp <= end_time)
    /\ [][WindowStep]_vars

\* The search moved both boundaries and returned a timestamp the refinement found
\* past the left boundary.
SearchWindowInvariantWitness ==
    /\ finder_pc = "done"
    /\ iterations = 9
    /\ start_time < current_start /\ current_end < end_time
    /\ current_start < best_timestamp /\ best_timestamp <= current_end

====
